---- MODULE Spec2Model ----
(***************************************************************************)
(* Guardian AI - risk fusion engine (server/src/services/risk-fusion.ts),  *)
(* heuristic URL analyser (ml-analyzer.ts), semantic analyser              *)
(* (llm-analyzer.ts), the URL scan route and the email analysis, the       *)
(* threat-intelligence service, the scan cache and the weights of the      *)
(* RiskFusionEngine class.                                                 *)
(*                                                                         *)
(* Specifications                                                          *)
(*  - Spec, SpecWide: one call of fuseRiskScores;                          *)
(*  - SpecUrl: analyseUrl on a raw URL string;                             *)
(*  - SpecScan: POST /api/scan/url as one step;                            *)
(*  - SpecEmail: analyseEmail;                                             *)
(*  - SpecIntel: gatherThreatIntel followed by fuseRiskScores;             *)
(*  - SpecEngine: setWeights calls on a RiskFusionEngine;                  *)
(*  - SpecCache: a sequence of POST /api/scan/url requests on one cache;   *)
(*  - SpecRoute: POST /api/scan/url with its three analyses settling in    *)
(*    any order.                                                           *)
(*                                                                         *)
(* Conventions of the model                                                *)
(*  - A nullable value (T | null, or an optional field) is a sequence of   *)
(*    length 0 (absent) or 1 (present): <<>> or <<v>>.                     *)
(*  - Weights and confidences are kept in hundredths: 0.35 is 35, a        *)
(*    confidence of 0.9 is 90.  Risk scores are the integers of the code.  *)
(*  - The code works in IEEE doubles.  weightedSum / totalWeight is exact  *)
(*    up to the last bit, so Math.round of it is the exact rounding unless *)
(*    the exact quotient lies half-way between two integers; there the     *)
(*    double may fall on either side.  Math.round of a quotient is         *)
(*    therefore the set of outcomes the build can produce.                 *)
(*  - An indicator label is a record [text, n, m]; n and m are the numbers *)
(*    a template string interpolates (0 for a fixed label).                *)
(***************************************************************************)
EXTENDS Integers, Sequences, FiniteSets, TLC

VARIABLES
    ml,           \* MlAnalysisResult | null handed to fuseRiskScores
    llm,          \* LlmAnalysisResult | null
    threatIntel,  \* ThreatIntelResult | null
    fusion,       \* RiskFusionResult returned, <<>> before the call returns
    pc,           \* "call" before fuseRiskScores ran, "done" after
    rawUrl,       \* the string handed to analyseUrl / extractUrlFeatures
    features,     \* UrlFeatures returned by extractUrlFeatures, <<>> before
    config,       \* config.api.openAiKey (set or not) and config.features
    options,      \* options of the scan request (skipMl, skipLlm, skipThreatIntel)
    upstream,     \* what the semantic provider and the threat-intel lookup deliver
    emailUrls,    \* extractedUrls of the email request
    returned,     \* the RiskFusionResult as fuseRiskScores returned it
    urlResults,   \* urlResults of the email analysis
    lookups,      \* what the four sub-lookups of gatherThreatIntel deliver
    weights,      \* RiskFusionEngine.weights
    threw,        \* whether the last setWeights call threw
    cache,        \* the scan cache: a set of [key, value] entries, one per key
    served,       \* number of scan requests served so far
    tasks,        \* the three analysis promises of one scan request
    fuseCalls,    \* number of fuseRiskScores calls of the scan request
    result,       \* the ScanResult built by the scan request
    reply         \* what the scan request sent to the client

urlVars == <<rawUrl, features>>

scanVars == <<config, options, upstream, emailUrls, returned, urlResults>>

engineVars == <<weights, threw>>

routeVars == <<cache, served, tasks, fuseCalls, result, reply>>

serviceVars == <<lookups, engineVars, routeVars>>

vars == <<ml, llm, threatIntel, fusion, pc, urlVars, scanVars, serviceVars>>

(***************************************************************************)
(* Bounds of the model                                                     *)
(***************************************************************************)
MaxMlIndicators == 6
MaxLlmIndicators == 6

(***************************************************************************)
(* Generic helpers                                                         *)
(***************************************************************************)
None == <<>>
Some(v) == <<v>>
IsSome(o) == o # <<>>
Range(s) == {s[i] : i \in 1..Len(s)}
MaxOf(a, b) == IF a >= b THEN a ELSE b
MinOf(a, b) == IF a <= b THEN a ELSE b
Label(s) == [text |-> s, n |-> 0, m |-> 0]

\* Math.round(n / d) for d > 0: round half up, floor((2n + d) / 2d); at an
\* exact half the double quotient may also lie just below it.
MathRound(n, d) ==
    LET up == (2 * n + d) \div (2 * d)
    IN  IF (2 * n) % (2 * d) = d THEN {up - 1, up} ELSE {up}

(***************************************************************************)
(* risk-fusion.ts                                                          *)
(***************************************************************************)
W_ML == 35
W_LLM == 35
W_THREAT_INTEL == 30


\* Mutant of toTier: strict comparisons, so a score on a threshold falls into
\* the tier below.
toTier_Strict(score) ==
    IF score > 80 THEN "CONFIRMED_PHISHING"
    ELSE IF score > 60 THEN "HIGH_RISK"
    ELSE IF score > 35 THEN "SUSPICIOUS"
    ELSE "SAFE"

toTier(score) ==
    IF score >= 80 THEN "CONFIRMED_PHISHING"
    ELSE IF score >= 60 THEN "HIGH_RISK"
    ELSE IF score >= 35 THEN "SUSPICIOUS"
    ELSE "SAFE"

AttackCategory ==
    {"NONE", "PHISHING", "CREDENTIAL_HARVESTING", "URGENCY_MANIPULATION",
     "AUTHORITY_IMPERSONATION", "BRAND_IMPERSONATION", "REWARD_BAITING",
     "FEAR_COERCION", "MALWARE_DISTRIBUTION", "SOCIAL_ENGINEERING", "UNKNOWN"}

\* category.toLowerCase().replace(/_/g, ' ')
lowerSpaced(category) ==
    CASE category = "NONE" -> "none"
      [] category = "PHISHING" -> "phishing"
      [] category = "CREDENTIAL_HARVESTING" -> "credential harvesting"
      [] category = "URGENCY_MANIPULATION" -> "urgency manipulation"
      [] category = "AUTHORITY_IMPERSONATION" -> "authority impersonation"
      [] category = "BRAND_IMPERSONATION" -> "brand impersonation"
      [] category = "REWARD_BAITING" -> "reward baiting"
      [] category = "FEAR_COERCION" -> "fear coercion"
      [] category = "MALWARE_DISTRIBUTION" -> "malware distribution"
      [] category = "SOCIAL_ENGINEERING" -> "social engineering"
      [] category = "UNKNOWN" -> "unknown"

\* The template literal of each tier, as the sequence of its parts.
buildRecommendation(tier, category) ==
    CASE tier = "CONFIRMED_PHISHING" ->
           <<"BLOCK IMMEDIATELY. This ",
             IF category # "NONE" THEN lowerSpaced(category) ELSE "resource",
             " has been classified as a confirmed phishing attempt. Do not interact with this content and report it to your security team.">>
      [] tier = "HIGH_RISK" ->
           <<"Exercise extreme caution. Multiple high-risk indicators detected. Avoid entering credentials or sensitive information. Report to your security team for further investigation.">>
      [] tier = "SUSPICIOUS" ->
           <<"Proceed with caution. Several suspicious indicators were found. Verify the authenticity of this resource through official channels before interacting.">>
      [] tier = "SAFE" ->
           <<"No significant threats detected. Standard security practices apply.">>

\* ml?.riskScore ?? 0, llm?.semanticRiskScore ?? 0
mlScore(m) == IF IsSome(m) THEN m[1].riskScore ELSE 0
llmScore(l) == IF IsSome(l) THEN l[1].semanticRiskScore ELSE 0


\* Mutant of tiReputation: an absent threat-intel result counts as reputation 0.
tiReputation_DefaultZero(t) == IF IsSome(t) THEN t[1].reputationScore ELSE 0

\* threatIntel?.reputationScore ?? 100, and its inversion
tiReputation(t) == IF IsSome(t) THEN t[1].reputationScore ELSE 100

\* Mutant of tiScore: the reputation is used without inversion.
tiScore_NotInverted(t) == tiReputation(t)

tiScore(t) == 100 - tiReputation(t)

\* The two accumulators after the three "if (source)" lines, in hundredths.
weightedSum(m, l, t) ==
    (IF IsSome(m) THEN mlScore(m) * W_ML ELSE 0)
    + (IF IsSome(l) THEN llmScore(l) * W_LLM ELSE 0)
    + (IF IsSome(t) THEN tiScore(t) * W_THREAT_INTEL ELSE 0)


\* Mutant of totalWeight: the weights of absent sources are counted too, so
\* the average is not renormalized.
totalWeight_AllSources(m, l, t) == W_ML + W_LLM + W_THREAT_INTEL

totalWeight(m, l, t) ==
    (IF IsSome(m) THEN W_ML ELSE 0)
    + (IF IsSome(l) THEN W_LLM ELSE 0)
    + (IF IsSome(t) THEN W_THREAT_INTEL ELSE 0)

\* totalWeight > 0 ? weightedSum / totalWeight : 0, as the fraction n / d
baseScore(m, l, t) ==
    IF totalWeight(m, l, t) > 0
    THEN [n |-> weightedSum(m, l, t), d |-> totalWeight(m, l, t)]
    ELSE [n |-> 0, d |-> 1]


\* Mutant of fracMax: the override replaces the running score.
fracMax_Replace(x, k) == [n |-> k, d |-> 1]

\* Math.max(x, k) for a fraction x and an integer k
fracMax(x, k) == IF x.n < k * x.d THEN [n |-> k, d |-> 1] ELSE x

\* threatIntel?.virusTotal?.positives ?? 0
vtPositives(t) ==
    IF IsSome(t) /\ IsSome(t[1].virusTotal) THEN t[1].virusTotal[1].positives ELSE 0

\* threatIntel?.safeBrowsing?.isMalicious
gsbMalicious(t) ==
    IsSome(t) /\ IsSome(t[1].safeBrowsing) /\ t[1].safeBrowsing[1].isMalicious

\* The running score after the three hard overrides, before rounding.
overridden(m, l, t) ==
    LET s0 == baseScore(m, l, t)
        s1 == IF IsSome(t) /\ t[1].knownMalicious THEN fracMax(s0, 90) ELSE s0
        s2 == IF gsbMalicious(t) THEN fracMax(s1, 85) ELSE s1
        s3 == IF vtPositives(t) >= 5 THEN fracMax(s2, 80) ELSE s2
    IN  s3

\* Math.min(100, Math.round(unifiedRiskScore)): the outcomes of the build
unifiedRiskScore(m, l, t) ==
    LET s == overridden(m, l, t)
    IN  {MinOf(100, r) : r \in MathRound(s.n, s.d)}


\* Mutant of attackCategory: NONE is treated like UNKNOWN.
attackCategory_DropNone(l) ==
    IF /\ IsSome(l)
       /\ l[1].attackCategory # ""
       /\ l[1].attackCategory # "UNKNOWN"
       /\ l[1].attackCategory # "NONE"
    THEN l[1].attackCategory
    ELSE "UNKNOWN"

\* llm?.attackCategory && llm.attackCategory !== 'UNKNOWN' ? ... : 'UNKNOWN'
attackCategory(l) ==
    IF IsSome(l) /\ l[1].attackCategory # "" /\ l[1].attackCategory # "UNKNOWN"
    THEN l[1].attackCategory
    ELSE "UNKNOWN"

GSB_LABEL == Label("Listed in Google Safe Browsing")
vtLabel(p, tot) == [text |-> "VirusTotal: n/m engines flagged", n |-> p, m |-> tot]
newDomainLabel(age) == [text |-> "Newly registered domain (n days old)", n |-> age, m |-> 0]

\* threatIntel?.whois?.ageInDays !== null && (threatIntel?.whois?.ageInDays ?? 999) < 30
newlyRegistered(t) ==
    /\ IsSome(t)
    /\ IsSome(t[1].whois)
    /\ IsSome(t[1].whois[1].ageInDays)
    /\ t[1].whois[1].ageInDays[1] < 30

allIndicators(m, l, t) ==
    (IF IsSome(m) THEN m[1].indicators ELSE <<>>)
    \o (IF IsSome(l) THEN l[1].indicators ELSE <<>>)
    \o (IF gsbMalicious(t) THEN <<GSB_LABEL>> ELSE <<>>)
    \o (IF vtPositives(t) > 0
        THEN <<vtLabel(t[1].virusTotal[1].positives, t[1].virusTotal[1].total)>>
        ELSE <<>>)
    \o (IF newlyRegistered(t)
        THEN <<newDomainLabel(t[1].whois[1].ageInDays[1])>>
        ELSE <<>>)

\* [...new Set(s)]: a Set iterates in insertion order, first occurrence kept
RECURSIVE setOrder(_)
setOrder(s) ==
    IF s = <<>> THEN <<>>
    ELSE LET front == setOrder(SubSeq(s, 1, Len(s) - 1))
             last == s[Len(s)]
         IN  IF last \in Range(front) THEN front ELSE Append(front, last)

TOP_N == 10


\* Mutant of topIndicators: truncates before it deduplicates.
topIndicators_SliceFirst(m, l, t) ==
    LET a == allIndicators(m, l, t)
    IN  setOrder(SubSeq(a, 1, MinOf(TOP_N, Len(a))))

\* .slice(0, 10)
topIndicators(m, l, t) ==
    LET u == setOrder(allIndicators(m, l, t))
    IN  SubSeq(u, 1, MinOf(TOP_N, Len(u)))


\* Mutant of confidences: an absent source contributes a confidence of 0.
confidences_ZeroForAbsent(m, l, t) ==
    <<IF IsSome(m) THEN m[1].confidence ELSE 0>>
    \o <<IF IsSome(l) THEN l[1].confidence ELSE 0>>
    \o <<IF IsSome(t) THEN (IF Len(t[1].sources) > 0 THEN 90 ELSE 50) ELSE 0>>

\* The confidences array, in hundredths
confidences(m, l, t) ==
    (IF IsSome(m) THEN <<m[1].confidence>> ELSE <<>>)
    \o (IF IsSome(l) THEN <<l[1].confidence>> ELSE <<>>)
    \o (IF IsSome(t) THEN <<IF Len(t[1].sources) > 0 THEN 90 ELSE 50>> ELSE <<>>)

RECURSIVE sumSeq(_)
sumSeq(s) == IF s = <<>> THEN 0 ELSE s[1] + sumSeq(Tail(s))

\* Math.round(confidence * 100) / 100, in hundredths: the outcomes of the build
confidence(m, l, t) ==
    LET cs == confidences(m, l, t)
    IN  IF Len(cs) > 0 THEN MathRound(sumSeq(cs), Len(cs)) ELSE {50}


\* Mutant of fusionResult: publishes the weights renormalized over the
\* present sources.
fusionResult_RenormalizedWeights(m, l, t, score, conf) ==
    LET tw == MaxOf(1, totalWeight(m, l, t))
    IN  [ unifiedRiskScore  |-> score,
          tier              |-> toTier(score),
          confidence        |-> conf,
          mlWeight          |-> IF IsSome(m) THEN (100 * W_ML) \div tw ELSE 0,
          llmWeight         |-> IF IsSome(l) THEN (100 * W_LLM) \div tw ELSE 0,
          threatIntelWeight |-> IF IsSome(t) THEN (100 * W_THREAT_INTEL) \div tw ELSE 0,
          breakdown         |-> [ mlScore          |-> mlScore(m),
                                  llmScore         |-> llmScore(l),
                                  threatIntelScore |-> tiScore(t) ],
          topIndicators     |-> topIndicators(m, l, t),
          attackCategory    |-> attackCategory(l),
          recommendation    |-> buildRecommendation(toTier(score), attackCategory(l)) ]

\* The object literal returned, for one outcome of each rounding
fusionResult(m, l, t, score, conf) ==
    [ unifiedRiskScore  |-> score,
      tier              |-> toTier(score),
      confidence        |-> conf,
      mlWeight          |-> W_ML,
      llmWeight         |-> W_LLM,
      threatIntelWeight |-> W_THREAT_INTEL,
      breakdown         |-> [ mlScore          |-> mlScore(m),
                              llmScore         |-> llmScore(l),
                              threatIntelScore |-> tiScore(t) ],
      topIndicators     |-> topIndicators(m, l, t),
      attackCategory    |-> attackCategory(l),
      recommendation    |-> buildRecommendation(toTier(score), attackCategory(l)) ]

fuseRiskScores(m, l, t) ==
    { fusionResult(m, l, t, score, conf) :
        score \in unifiedRiskScore(m, l, t), conf \in confidence(m, l, t) }

(***************************************************************************)
(* Inputs of fuseRiskScores.  Only the fields the function reads are kept. *)
(***************************************************************************)
MlResult(score, conf, inds) ==
    [riskScore |-> score, confidence |-> conf, indicators |-> inds]

LlmResult(score, cat, conf, inds) ==
    [semanticRiskScore |-> score, attackCategory |-> cat,
     confidence |-> conf, indicators |-> inds]

TiResult(known, rep, gsb, vt, wi, srcs) ==
    [knownMalicious |-> known, reputationScore |-> rep, safeBrowsing |-> gsb,
     virusTotal |-> vt, whois |-> wi, sources |-> srcs]

VtResult(p, tot) == [positives |-> p, total |-> tot]
GsbResult(b) == [isMalicious |-> b]
WhoisResult(age) == [ageInDays |-> age]

\* Scores on and next to the tier thresholds, and the ends of the range.
ScoreVals == {0, 1, 34, 35, 50, 59, 60, 79, 80, 100}
ReputationVals == {0, 15, 50, 67, 100}
ConfidenceVals == {0, 50, 55, 56, 90, 98, 100}

\* Labels of scoreFeatures, in its table order.
MlLabelPool ==
    << Label("IP-based domain detected"), Label("Non-HTTPS connection"),
       Label("Suspicious keywords in URL"), Label("At-sign (@) in URL"),
       Label("Unusually long URL"), Label("High digit ratio in URL"),
       Label("Excessive dots in URL"), Label("Deep URL path structure") >>

\* Labels a semantic provider may return: free text, so a label may repeat,
\* may equal a heuristic label and may equal a synthesized label.
LlmLabelPool ==
    << Label("Urgency language"), Label("Non-HTTPS connection"),
       Label("Credential request"), Label("Urgency language"),
       Label("Brand impersonation"), Label("Listed in Google Safe Browsing"),
       Label("Fake login page"), Label("Reward promise"),
       Label("Threat of account closure"), Label("Spoofed sender") >>

MlIndicatorLists ==
    {SubSeq(MlLabelPool, 1, k) : k \in 0..MinOf(MaxMlIndicators, Len(MlLabelPool))}

LlmIndicatorLists ==
    {SubSeq(LlmLabelPool, w[1], w[1] + w[2] - 1) :
        w \in {v \in (1..Len(LlmLabelPool)) \X (0..MaxLlmIndicators) :
                  v[1] + v[2] - 1 <= Len(LlmLabelPool)}}

Optional(S) == {None} \cup {Some(v) : v \in S}

\* Inputs that vary the three scores and the override flags.
ScoreInputs ==
    Optional({MlResult(s, 50, <<>>) : s \in ScoreVals})
    \X Optional({LlmResult(s, "PHISHING", 50, <<>>) : s \in ScoreVals})
    \X Optional({TiResult(k, rep, gsb, vt, None, <<>>) :
                    k \in BOOLEAN, rep \in ReputationVals,
                    gsb \in Optional({GsbResult(b) : b \in BOOLEAN}),
                    vt \in Optional({VtResult(p, 70) : p \in {0, 4, 5}})})

\* Inputs that vary the indicator lists and the synthesized indicators.
IndicatorInputs ==
    Optional({MlResult(40, 50, inds) : inds \in MlIndicatorLists})
    \X Optional({LlmResult(40, "PHISHING", 50, inds) : inds \in LlmIndicatorLists})
    \X Optional({TiResult(FALSE, 100, gsb, vt, wi, <<>>) :
                    gsb \in Optional({GsbResult(b) : b \in BOOLEAN}),
                    vt \in Optional({VtResult(p, 70) : p \in {0, 3}}),
                    wi \in Optional({WhoisResult(age) : age \in Optional({5, 29, 30})})})

\* Inputs that vary the confidences.
ConfidenceInputs ==
    Optional({MlResult(40, c, <<>>) : c \in ConfidenceVals})
    \X Optional({LlmResult(40, "PHISHING", c, <<>>) : c \in ConfidenceVals})
    \X Optional({TiResult(FALSE, 100, None, None, None, srcs) :
                    srcs \in {<<>>, <<"VirusTotal">>, <<"VirusTotal", "WHOIS">>}})

\* Inputs that vary the semantic category, below and above the top tier.
CategoryInputs ==
    Optional({MlResult(90, 50, <<>>)})
    \X {Some(LlmResult(s, c, 50, <<>>)) : s \in {0, 90}, c \in AttackCategory}
    \X {None}

FusionInputs == ScoreInputs \cup IndicatorInputs \cup ConfidenceInputs \cup CategoryInputs

\* Inputs outside the nominal ranges of the types (riskScore and
\* reputationScore are documented as 0-100).
WideInputs ==
    Optional({MlResult(s, 50, <<>>) : s \in {-10, 50, 120}})
    \X Optional({LlmResult(s, "PHISHING", 50, <<>>) : s \in {-10, 50, 120}})
    \X Optional({TiResult(k, rep, None, None, None, <<>>) :
                    k \in BOOLEAN, rep \in {-20, 50, 150}})

(***************************************************************************)
(* The state of the services a specification does not exercise: the engine *)
(* as constructed, an empty cache, no request in flight.                   *)
(***************************************************************************)
Weights(a, b, c, d) == [ml |-> a, llm |-> b, threat |-> c, domainAge |-> d]

\* private weights = { ml: 40, llm: 30, threat: 20, domainAge: 10 }
InitialWeights == Weights(40, 30, 20, 10)

EngineConstructed ==
    /\ weights = InitialWeights
    /\ threw = FALSE

RouteIdle ==
    /\ cache = {}
    /\ served = 0
    /\ tasks = <<>>
    /\ fuseCalls = 0
    /\ result = <<>>
    /\ reply = <<>>

ServicesIdle ==
    /\ lookups = <<>>
    /\ EngineConstructed
    /\ RouteIdle

(***************************************************************************)
(* One call of fuseRiskScores                                              *)
(***************************************************************************)
Init ==
    /\ \E in \in FusionInputs :
          /\ ml = in[1]
          /\ llm = in[2]
          /\ threatIntel = in[3]
    /\ fusion = None
    /\ pc = "call"
    /\ rawUrl = <<>>
    /\ features = None
    /\ config = None
    /\ options = None
    /\ upstream = None
    /\ emailUrls = <<>>
    /\ returned = None
    /\ urlResults = <<>>
    /\ ServicesIdle

InitWide ==
    /\ \E in \in WideInputs :
          /\ ml = in[1]
          /\ llm = in[2]
          /\ threatIntel = in[3]
    /\ fusion = None
    /\ pc = "call"
    /\ rawUrl = <<>>
    /\ features = None
    /\ config = None
    /\ options = None
    /\ upstream = None
    /\ emailUrls = <<>>
    /\ returned = None
    /\ urlResults = <<>>
    /\ ServicesIdle

Fuse ==
    /\ pc = "call"
    /\ \E r \in fuseRiskScores(ml, llm, threatIntel) : fusion' = Some(r)
    /\ pc' = "done"
    /\ UNCHANGED <<ml, llm, threatIntel, urlVars, scanVars, serviceVars>>

Next == Fuse

Spec == Init /\ [][Next]_vars

SpecWide == InitWide /\ [][Next]_vars

(***************************************************************************)
(* Properties of fuseRiskScores                                            *)
(***************************************************************************)
Returned == pc = "done"
Abs(x) == IF x < 0 THEN 0 - x ELSE x

\* The weighted sum and the weight total of the sources that are present,
\* written from the published weights 0.35 / 0.35 / 0.30 (in hundredths).
PresentSum ==
    (IF ml # <<>> THEN 35 * ml[1].riskScore ELSE 0)
    + (IF llm # <<>> THEN 35 * llm[1].semanticRiskScore ELSE 0)
    + (IF threatIntel # <<>> THEN 30 * (100 - threatIntel[1].reputationScore) ELSE 0)

PresentWeight ==
    (IF ml # <<>> THEN 35 ELSE 0)
    + (IF llm # <<>> THEN 35 ELSE 0)
    + (IF threatIntel # <<>> THEN 30 ELSE 0)

\* u is PresentSum / PresentWeight rounded to the nearest integer (0 when no
\* source is present).
IsRoundedBase(u) ==
    IF PresentWeight = 0 THEN u = 0
    ELSE 2 * Abs(u * PresentWeight - PresentSum) <= PresentWeight

FlagKnown == threatIntel # <<>> /\ threatIntel[1].knownMalicious
FlagGsb ==
    /\ threatIntel # <<>>
    /\ threatIntel[1].safeBrowsing # <<>>
    /\ threatIntel[1].safeBrowsing[1].isMalicious
FlagVt5 ==
    /\ threatIntel # <<>>
    /\ threatIntel[1].virusTotal # <<>>
    /\ threatIntel[1].virusTotal[1].positives >= 5
NoOverride == ~FlagKnown /\ ~FlagGsb /\ ~FlagVt5

\* C1: with no hard override, unifiedRiskScore is the weighted sum over the
\* present sources divided by the weight of the present sources, rounded to
\* the nearest integer (0 when all are absent); a single present source
\* returns its own score, and breakdown.mlScore is ml.riskScore.
C1_Renormalized ==
    (Returned /\ NoOverride) =>
        /\ IsRoundedBase(fusion[1].unifiedRiskScore)
        /\ (ml # <<>> /\ llm = <<>> /\ threatIntel = <<>>) =>
              /\ fusion[1].unifiedRiskScore = ml[1].riskScore
              /\ fusion[1].breakdown.mlScore = ml[1].riskScore
        /\ (ml = <<>> /\ llm # <<>> /\ threatIntel = <<>>) =>
              fusion[1].unifiedRiskScore = llm[1].semanticRiskScore
        /\ (ml = <<>> /\ llm = <<>> /\ threatIntel # <<>>) =>
              fusion[1].unifiedRiskScore = 100 - threatIntel[1].reputationScore

\* fuseRiskScores(ml={riskScore:80}, null, null) returned 80 / mlScore 80.
C1_Witness ==
    /\ Returned
    /\ ml # <<>> /\ ml[1].riskScore = 80
    /\ llm = <<>> /\ threatIntel = <<>>
    /\ fusion[1].unifiedRiskScore = 80
    /\ fusion[1].breakdown.mlScore = 80

\* The largest floor among the overrides that fire (0 when none does).
LargestFloor ==
    IF FlagKnown THEN 90 ELSE IF FlagGsb THEN 85 ELSE IF FlagVt5 THEN 80 ELSE 0

\* C2: each override is a floor (90, 85, 80), the final score is never below
\* the rounded base score, and when the base score does not exceed the
\* largest floor that fires the result is that floor itself (a maximum, not a
\* sum of the overrides).
C2_OverrideFloors ==
    Returned =>
        LET u == fusion[1].unifiedRiskScore
        IN  /\ FlagKnown => u >= 90
            /\ FlagGsb => u >= 85
            /\ FlagVt5 => u >= 80
            /\ \E b \in 0..100 : IsRoundedBase(b) /\ u >= b
            /\ (~NoOverride /\ PresentSum <= LargestFloor * PresentWeight) =>
                  u = LargestFloor

\* All three overrides fired on a base score below 80 and the result is 90.
C2_Witness ==
    /\ Returned
    /\ FlagKnown /\ FlagGsb /\ FlagVt5
    /\ PresentSum < 80 * PresentWeight
    /\ fusion[1].unifiedRiskScore = 90

\* C3: tier is the threshold function of unifiedRiskScore: >= 80
\* CONFIRMED_PHISHING, 60..79 HIGH_RISK, 35..59 SUSPICIOUS, < 35 SAFE.
C3_TierThresholds ==
    Returned =>
        LET u == fusion[1].unifiedRiskScore
            tr == fusion[1].tier
        IN  /\ (u >= 80) <=> (tr = "CONFIRMED_PHISHING")
            /\ (60 <= u /\ u < 80) <=> (tr = "HIGH_RISK")
            /\ (35 <= u /\ u < 60) <=> (tr = "SUSPICIOUS")
            /\ (u < 35) <=> (tr = "SAFE")

\* A result whose score lies exactly on the 60 threshold.
C3_Witness ==
    /\ Returned
    /\ fusion[1].unifiedRiskScore = 60
    /\ fusion[1].tier = "HIGH_RISK"

\* C4: unifiedRiskScore is an integer in 0..100 for every call, also when an
\* upstream value lies outside its nominal range.
C4_ClampedBothEnds ==
    Returned => fusion[1].unifiedRiskScore \in 0..100

\* C5: fuseRiskScores(null, null, null) returns score 0, tier SAFE,
\* confidence 0.5, category UNKNOWN, no indicators and a breakdown of zeros.
C5_AllAbsent ==
    (Returned /\ ml = <<>> /\ llm = <<>> /\ threatIntel = <<>>) =>
        /\ fusion[1].unifiedRiskScore = 0
        /\ fusion[1].tier = "SAFE"
        /\ fusion[1].confidence = 50
        /\ fusion[1].attackCategory = "UNKNOWN"
        /\ fusion[1].topIndicators = <<>>
        /\ fusion[1].breakdown = [mlScore |-> 0, llmScore |-> 0, threatIntelScore |-> 0]

\* The call with no source has returned.
C5_Witness ==
    /\ Returned
    /\ ml = <<>> /\ llm = <<>> /\ threatIntel = <<>>
    /\ fusion # <<>>

\* C6 as stated: the fused category is the semantic category when that is
\* present and neither UNKNOWN nor NONE, and UNKNOWN in every other case.
C6_CategoryOriginal ==
    Returned =>
        fusion[1].attackCategory =
            IF llm # <<>> /\ llm[1].attackCategory \notin {"UNKNOWN", "NONE"}
            THEN llm[1].attackCategory
            ELSE "UNKNOWN"

\* C6 amended: the fused category is the semantic category when the semantic
\* result is present and its category is not UNKNOWN (NONE is passed through
\* as NONE), and UNKNOWN otherwise; no other input influences it.
C6_CategoryAmended ==
    Returned =>
        fusion[1].attackCategory =
            IF llm # <<>> /\ llm[1].attackCategory # "UNKNOWN"
            THEN llm[1].attackCategory
            ELSE "UNKNOWN"

\* A semantic result with category NONE was fused with a heuristic result.
C6_Witness ==
    /\ Returned
    /\ ml # <<>>
    /\ llm # <<>> /\ llm[1].attackCategory = "NONE"
    /\ fusion[1].attackCategory = "NONE"

\* The concatenation of C7, written from the inputs.
C7_Concatenation ==
    (IF ml # <<>> THEN ml[1].indicators ELSE <<>>)
    \o (IF llm # <<>> THEN llm[1].indicators ELSE <<>>)
    \o (IF FlagGsb
        THEN <<[text |-> "Listed in Google Safe Browsing", n |-> 0, m |-> 0]>>
        ELSE <<>>)
    \o (IF /\ threatIntel # <<>>
           /\ threatIntel[1].virusTotal # <<>>
           /\ threatIntel[1].virusTotal[1].positives > 0
        THEN <<[text |-> "VirusTotal: n/m engines flagged",
                n |-> threatIntel[1].virusTotal[1].positives,
                m |-> threatIntel[1].virusTotal[1].total]>>
        ELSE <<>>)
    \o (IF /\ threatIntel # <<>>
           /\ threatIntel[1].whois # <<>>
           /\ threatIntel[1].whois[1].ageInDays # <<>>
           /\ threatIntel[1].whois[1].ageInDays[1] < 30
        THEN <<[text |-> "Newly registered domain (n days old)",
                n |-> threatIntel[1].whois[1].ageInDays[1], m |-> 0]>>
        ELSE <<>>)

FirstIndex(s, x) == CHOOSE i \in 1..Len(s) : s[i] = x /\ \A j \in 1..(i - 1) : s[j] # x

\* C7: topIndicators has at most 10 entries, no label twice, and its i-th
\* entry is the i-th distinct label of the concatenation in order of first
\* occurrence, for as many entries as there are distinct labels, up to 10.
C7_TopIndicators ==
    Returned =>
        LET top == fusion[1].topIndicators
            all == C7_Concatenation
            distinct == {all[i] : i \in 1..Len(all)}
        IN  /\ Len(top) <= 10
            /\ \A i, j \in 1..Len(top) : i # j => top[i] # top[j]
            /\ Len(top) = IF Cardinality(distinct) < 10 THEN Cardinality(distinct) ELSE 10
            /\ \A i \in 1..Len(top) :
                  /\ top[i] \in distinct
                  /\ Cardinality({x \in distinct :
                        FirstIndex(all, x) < FirstIndex(all, top[i])}) = i - 1

\* More than 10 distinct labels, one of them repeated among the first ten
\* positions, and all five parts of the concatenation non-empty.
C7_Witness ==
    /\ Returned
    /\ ml # <<>> /\ ml[1].indicators # <<>>
    /\ llm # <<>> /\ llm[1].indicators # <<>>
    /\ Cardinality({C7_Concatenation[i] : i \in 1..Len(C7_Concatenation)}) > 10
    /\ \E i, j \in 1..10 : i < j /\ C7_Concatenation[i] = C7_Concatenation[j]
    /\ Len(C7_Concatenation) >= Len(ml[1].indicators) + Len(llm[1].indicators) + 3
    /\ Len(fusion[1].topIndicators) = 10

\* The per-source confidences of C8 (hundredths), written from the inputs.
C8_Values ==
    (IF ml # <<>> THEN <<ml[1].confidence>> ELSE <<>>)
    \o (IF llm # <<>> THEN <<llm[1].confidence>> ELSE <<>>)
    \o (IF threatIntel # <<>>
        THEN <<IF threatIntel[1].sources # <<>> THEN 90 ELSE 50>>
        ELSE <<>>)

GenericSubject == "resource"

\* C9: the recommendation is the template of the tier; the
\* CONFIRMED_PHISHING template names the category (lower-cased, underscores
\* as spaces) only when it is known, and uses the generic wording when the
\* fused category is UNKNOWN or NONE.
C9_Recommendation ==
    Returned =>
        LET tr == fusion[1].tier
            cat == fusion[1].attackCategory
            rec == fusion[1].recommendation
        IN  /\ \A r \in fuseRiskScores(ml, llm, threatIntel) :
                  r.tier = tr => r.recommendation = rec
            /\ tr # "CONFIRMED_PHISHING" =>
                  \A c \in AttackCategory : rec = buildRecommendation(tr, c)
            /\ tr = "CONFIRMED_PHISHING" =>
                  /\ Len(rec) = 3
                  /\ rec[2] = IF cat \in {"UNKNOWN", "NONE"}
                              THEN GenericSubject
                              ELSE lowerSpaced(cat)

\* C10: the published weights are 0.35, 0.35 and 0.30 whatever sources are
\* present.
C10_StaticWeights ==
    Returned =>
        /\ fusion[1].mlWeight = 35
        /\ fusion[1].llmWeight = 35
        /\ fusion[1].threatIntelWeight = 30

\* A call with the heuristic result alone: the score was renormalized to that
\* single source, the published weights were not.
C10_Witness ==
    /\ Returned
    /\ ml # <<>> /\ ml[1].riskScore = 80
    /\ llm = <<>> /\ threatIntel = <<>>
    /\ fusion[1].unifiedRiskScore = 80
    /\ fusion[1].mlWeight = 35

(***************************************************************************)
(* Strings.  A string is the sequence of its characters, each character a  *)
(* one-character TLA+ string, so that the code's character-level           *)
(* operations (split, includes, replaceAll, regular expressions) are       *)
(* computed and not assumed.                                               *)
(***************************************************************************)
LowerLetters == {"a", "b", "c", "d", "e", "f", "g", "h", "i", "j", "k", "l", "m", "n", "o", "p", "q", "r", "s", "t", "u", "v", "w", "x", "y", "z"}
UpperLetters == {"A", "B", "C", "D", "E", "F", "G", "H", "I", "J", "K", "L", "M", "N", "O", "P", "Q", "R", "S", "T", "U", "V", "W", "X", "Y", "Z"}
Digits == {"0", "1", "2", "3", "4", "5", "6", "7", "8", "9"}
HexDigits == Digits \cup {"a", "b", "c", "d", "e", "f", "A", "B", "C", "D", "E", "F"}

lowerOf ==
    "A" :> "a" @@ "B" :> "b" @@ "C" :> "c" @@ "D" :> "d" @@ "E" :> "e" @@ "F" :> "f" @@
    "G" :> "g" @@ "H" :> "h" @@ "I" :> "i" @@ "J" :> "j" @@ "K" :> "k" @@ "L" :> "l" @@
    "M" :> "m" @@ "N" :> "n" @@ "O" :> "o" @@ "P" :> "p" @@ "Q" :> "q" @@ "R" :> "r" @@
    "S" :> "s" @@ "T" :> "t" @@ "U" :> "u" @@ "V" :> "v" @@ "W" :> "w" @@ "X" :> "x" @@
    "Y" :> "y" @@ "Z" :> "z"

\* String.prototype.toLowerCase, on ASCII
toLowerCase(s) ==
    [i \in 1..Len(s) |-> IF s[i] \in UpperLetters THEN lowerOf[s[i]] ELSE s[i]]

\* The TLA+ string spelt by a character sequence (template interpolation).
RECURSIVE Str(_)
Str(s) == IF Len(s) = 0 THEN "" ELSE s[1] \o Str(Tail(s))

\* s.startsWith(p), s.includes(p)
startsWith(s, p) == Len(s) >= Len(p) /\ SubSeq(s, 1, Len(p)) = p
includes(s, p) ==
    \E i \in 0..(Len(s) - Len(p)) : \A j \in 1..Len(p) : s[i + j] = p[j]

\* (s.match(/[class]/g) ?? []).length
countIn(s, class) == Cardinality({i \in 1..Len(s) : s[i] \in class})

\* Index of the first character of s that lies in class, 0 when there is none.
firstIn(s, class) ==
    IF \E i \in 1..Len(s) : s[i] \in class
    THEN CHOOSE i \in 1..Len(s) : s[i] \in class /\ \A j \in 1..(i - 1) : s[j] \notin class
    ELSE 0

\* Index of the last character of s that lies in class, 0 when there is none.
lastIn(s, class) ==
    IF \E i \in 1..Len(s) : s[i] \in class
    THEN CHOOSE i \in 1..Len(s) : s[i] \in class /\ \A j \in (i + 1)..Len(s) : s[j] \notin class
    ELSE 0

\* s.split(c) for a one-character separator (a separator class for a
\* character-class regular expression): empty pieces are kept.
RECURSIVE split(_, _)
split(s, class) ==
    LET i == firstIn(s, class)
    IN  IF i = 0 THEN <<s>>
        ELSE <<SubSeq(s, 1, i - 1)>> \o split(SubSeq(s, i + 1, Len(s)), class)

\* parts.join(c)
RECURSIVE join(_, _)
join(parts, c) ==
    IF Len(parts) = 0 THEN <<>>
    ELSE IF Len(parts) = 1 THEN parts[1]
    ELSE parts[1] \o <<c>> \o join(Tail(parts), c)

\* .filter(Boolean) on an array of strings: the non-empty ones
RECURSIVE filterNonEmpty(_)
filterNonEmpty(parts) ==
    IF Len(parts) = 0 THEN <<>>
    ELSE (IF Len(parts[1]) > 0 THEN <<parts[1]>> ELSE <<>>) \o filterNonEmpty(Tail(parts))

\* out.replaceAll(sub, orig) for one-character strings
replaceAll(s, sub, orig) == [i \in 1..Len(s) |-> IF s[i] = sub THEN orig ELSE s[i]]

\* The value of a string of decimal digits.
digitValue ==
    "0" :> 0 @@ "1" :> 1 @@ "2" :> 2 @@ "3" :> 3 @@ "4" :> 4 @@
    "5" :> 5 @@ "6" :> 6 @@ "7" :> 7 @@ "8" :> 8 @@ "9" :> 9

RECURSIVE decimalValue(_)
decimalValue(s) ==
    IF Len(s) = 0 THEN 0
    ELSE 10 * decimalValue(SubSeq(s, 1, Len(s) - 1)) + digitValue[s[Len(s)]]

digitChar == <<"0", "1", "2", "3", "4", "5", "6", "7", "8", "9">>

\* The decimal digits of a natural number.
RECURSIVE decimalString(_)
decimalString(k) ==
    IF k < 10 THEN <<digitChar[k + 1]>>
    ELSE decimalString(k \div 10) \o <<digitChar[(k % 10) + 1]>>

\* log2(k) in millionths of a bit, for k = 1..128 (Math.log2).
log2Micro ==
 <<0, 1000000, 1584963, 2000000, 2321928, 2584963, 2807355, 3000000, 3169925,
   3321928, 3459432, 3584963, 3700440, 3807355, 3906891, 4000000, 4087463,
   4169925, 4247928, 4321928, 4392317, 4459432, 4523562, 4584963, 4643856,
   4700440, 4754888, 4807355, 4857981, 4906891, 4954196, 5000000, 5044394,
   5087463, 5129283, 5169925, 5209453, 5247928, 5285402, 5321928, 5357552,
   5392317, 5426265, 5459432, 5491853, 5523562, 5554589, 5584963, 5614710,
   5643856, 5672425, 5700440, 5727920, 5754888, 5781360, 5807355, 5832890,
   5857981, 5882643, 5906891, 5930737, 5954196, 5977280, 6000000, 6022368,
   6044394, 6066089, 6087463, 6108524, 6129283, 6149747, 6169925, 6189825,
   6209453, 6228819, 6247928, 6266787, 6285402, 6303781, 6321928, 6339850,
   6357552, 6375039, 6392317, 6409391, 6426265, 6442943, 6459432, 6475733,
   6491853, 6507795, 6523562, 6539159, 6554589, 6569856, 6584963, 6599913,
   6614710, 6629357, 6643856, 6658211, 6672425, 6686501, 6700440, 6714246,
   6727920, 6741467, 6754888, 6768184, 6781360, 6794416, 6807355, 6820179,
   6832890, 6845490, 6857981, 6870365, 6882643, 6894818, 6906891, 6918863,
   6930737, 6942515, 6954196, 6965784, 6977280, 6988685, 7000000>>

\* shannonEntropy in millionths of a bit.  With N the length and c(x) the
\* number of occurrences of x, -sum p log2 p = log2 N - (sum c log2 c) / N,
\* and sum over characters of c log2 c = sum over positions of log2 c(s[i]).
shannonEntropy(str) ==
    IF Len(str) = 0 THEN 0
    ELSE LET N == Len(str)
             occurrences(x) == Cardinality({j \in 1..N : str[j] = x})
             perPosition == [i \in 1..N |-> log2Micro[occurrences(str[i])]]
         IN  (N * log2Micro[N] - sumSeq(perPosition)) \div N

(***************************************************************************)
(* new URL(input) of the platform (WHATWG URL), as far as the analyser     *)
(* reads it: protocol, hostname, port, pathname, search, hash.  <<>> when  *)
(* the constructor throws.  Not modelled, and absent from the inputs of    *)
(* the model: backslashes, tabs and line breaks, bracketed IPv6 literals,  *)
(* hexadecimal IPv4 parts, percent-encoded or non-ASCII hosts.             *)
(***************************************************************************)
SchemeChars == LowerLetters \cup UpperLetters \cup Digits \cup {"+", "-", "."}
AuthorityEnd == {"/", "?", "#"}
ForbiddenHost == {" ", "#", "/", ":", "<", ">", "?", "@", "[", "]", "^", "|"}
ForbiddenDomain == ForbiddenHost \cup {"%"}
OctalDigits == {"0", "1", "2", "3", "4", "5", "6", "7"}

\* Leading and trailing spaces are stripped from the input.
RECURSIVE trim(_)
trim(s) ==
    IF Len(s) > 0 /\ s[1] = " " THEN trim(Tail(s))
    ELSE IF Len(s) > 0 /\ s[Len(s)] = " " THEN trim(SubSeq(s, 1, Len(s) - 1))
    ELSE s

\* s from its first character outside class on.
dropLeading(s, class) ==
    IF \A i \in 1..Len(s) : s[i] \in class THEN <<>>
    ELSE LET i == CHOOSE k \in 1..Len(s) :
                    s[k] \notin class /\ \A j \in 1..(k - 1) : s[j] \in class
         IN  SubSeq(s, i, Len(s))

\* s before its first character in class (all of s when there is none), and
\* s from that character on.
before(s, class) ==
    LET i == firstIn(s, class) IN IF i = 0 THEN s ELSE SubSeq(s, 1, i - 1)
from(s, class) ==
    LET i == firstIn(s, class) IN IF i = 0 THEN <<>> ELSE SubSeq(s, i, Len(s))

allIn(s, class) == \A i \in 1..Len(s) : s[i] \in class

\* The value of a digit string in the given radix as <<high, low>> 16-bit
\* halves, the high half saturating at 65536 (a value of 2^32 or more).
RECURSIVE halves(_, _)
halves(s, radix) ==
    IF Len(s) = 0 THEN <<0, 0>>
    ELSE LET rest == halves(SubSeq(s, 1, Len(s) - 1), radix)
             low == rest[2] * radix + digitValue[s[Len(s)]]
             high == rest[1] * radix + (low \div 65536)
         IN  <<MinOf(65536, high), low % 65536>>

\* IPv4 number parser: <<>> for a part that is not a number.
ipv4Number(part) ==
    IF Len(part) = 0 \/ ~allIn(part, Digits) THEN None
    ELSE IF Len(part) > 1 /\ part[1] = "0"
         THEN (IF allIn(part, OctalDigits) THEN Some(halves(part, 8)) ELSE None)
         ELSE Some(halves(part, 10))

\* IPv4 parser on the dot-separated parts: every part but the last is at
\* most 255, the last one fills the remaining bytes; the address is
\* serialized as a dotted quad.
ipv4Parse(parts) ==
    IF Len(parts) > 4 THEN None
    ELSE LET nums == [i \in 1..Len(parts) |-> ipv4Number(parts[i])]
             n == Len(parts)
             last == nums[n][1]
             lastBytes == <<last[1] \div 256, last[1] % 256, last[2] \div 256, last[2] % 256>>
             byte(i) == IF i < n THEN nums[i][1][2] ELSE lastBytes[i]
         IN  IF \E i \in 1..n : nums[i] = None THEN None
             ELSE IF \E i \in 1..(n - 1) : nums[i][1][1] > 0 \/ nums[i][1][2] > 255 THEN None
             ELSE IF last[1] > 65535 \/ \E i \in 1..(n - 1) : lastBytes[i] > 0 THEN None
             ELSE Some(decimalString(byte(1)) \o <<".">> \o decimalString(byte(2)) \o <<".">>
                       \o decimalString(byte(3)) \o <<".">> \o decimalString(byte(4)))

\* Host parser of a special scheme: lower-cased domain, or an IPv4 address
\* when the last part is a number.
parseDomain(host) ==
    LET lowered == toLowerCase(host)
        parts0 == split(lowered, {"."})
        parts == IF Len(parts0) > 1 /\ Len(parts0[Len(parts0)]) = 0
                 THEN SubSeq(parts0, 1, Len(parts0) - 1)
                 ELSE parts0
        last == parts[Len(parts)]
    IN  IF Len(host) = 0 THEN None
        ELSE IF \E i \in 1..Len(host) : host[i] \in ForbiddenDomain THEN None
        ELSE IF Len(last) > 0 /\ allIn(last, Digits) THEN ipv4Parse(parts)
        ELSE Some(lowered)

\* Host parser of a non-special scheme: an opaque host, which may be empty.
parseOpaqueHost(host) ==
    IF \E i \in 1..Len(host) : host[i] \in ForbiddenHost THEN None ELSE Some(host)

\* Port state: <<>> on failure, else <<port>> with port the string that
\* URL.port returns ("" for no port or the default port of the scheme).
parsePort(digits, scheme) ==
    IF ~allIn(digits, Digits) THEN None
    ELSE IF Len(digits) = 0 THEN Some(<<>>)
    ELSE IF Len(digits) > 5 /\ \E i \in 1..(Len(digits) - 5) : digits[i] # "0" THEN None
    ELSE LET v == decimalValue(digits)
         IN  IF v > 65535 THEN None
             ELSE IF (scheme = <<"h", "t", "t", "p">> /\ v = 80) \/ (scheme = <<"h", "t", "t", "p", "s">> /\ v = 443)
                  THEN Some(<<>>)
                  ELSE Some(decimalString(v))

\* Path of a special scheme: dot segments are resolved, the path is at
\* least "/".
RECURSIVE resolveSegments(_, _)
resolveSegments(segs, acc) ==
    IF Len(segs) = 0 THEN acc
    ELSE IF segs[1] = <<".", ".">>
         THEN resolveSegments(Tail(segs),
                              IF Len(acc) > 0 THEN SubSeq(acc, 1, Len(acc) - 1) ELSE acc)
    ELSE IF segs[1] = <<".">> THEN resolveSegments(Tail(segs), acc)
    ELSE resolveSegments(Tail(segs), Append(acc, segs[1]))

specialPathname(path) ==
    IF Len(path) = 0 THEN <<"/">>
    ELSE <<"/">> \o join(resolveSegments(Tail(split(path, {"/"})), <<>>), "/")

\* Authority of the URL: credentials up to the last "@", host, port.
parseAuthority(authority, scheme, special) ==
    LET at == lastIn(authority, {"@"})
        hostport == SubSeq(authority, at + 1, Len(authority))
        colon == firstIn(hostport, {":"})
        hostStr == IF colon = 0 THEN hostport ELSE SubSeq(hostport, 1, colon - 1)
        portStr == IF colon = 0 THEN <<>> ELSE SubSeq(hostport, colon + 1, Len(hostport))
        host == IF special THEN parseDomain(hostStr) ELSE parseOpaqueHost(hostStr)
        port == parsePort(portStr, scheme)
    IN  IF at > 0 /\ Len(hostport) = 0 THEN None
        ELSE IF host = None \/ port = None THEN None
        ELSE IF Len(hostStr) = 0 /\ (at > 0 \/ colon > 0) THEN None
        ELSE Some([hostname |-> host[1], port |-> port[1]])

\* The parts after the authority: path, query, fragment.
urlTail(rest, auth, scheme, special) ==
    LET pathStr == before(rest, {"?", "#"})
        afterPath == from(rest, {"?", "#"})
        hasQuery == Len(afterPath) > 0 /\ afterPath[1] = "?"
        query == IF hasQuery THEN before(Tail(afterPath), {"#"}) ELSE <<>>
        fragPart == from(afterPath, {"#"})
        fragment == IF Len(fragPart) > 0 THEN Tail(fragPart) ELSE <<>>
    IN  [ protocol |-> scheme \o <<":">>,
          hostname |-> auth.hostname,
          port     |-> auth.port,
          pathname |-> IF special THEN specialPathname(pathStr) ELSE pathStr,
          search   |-> IF Len(query) > 0 THEN <<"?">> \o query ELSE <<>>,
          hash     |-> IF Len(fragment) > 0 THEN <<"#">> \o fragment ELSE <<>> ]

newURL(input) ==
    LET t == trim(input)
        k == firstIn(t, {c \in Range(t) : c \notin SchemeChars})
        scheme == toLowerCase(SubSeq(t, 1, k - 1))
        special == scheme \in {<<"h", "t", "t", "p">>, <<"h", "t", "t", "p", "s">>}
        rest == SubSeq(t, k + 1, Len(t))
    IN  IF k < 2 \/ t[k] # ":" \/ t[1] \notin (LowerLetters \cup UpperLetters) THEN None
        ELSE IF special
        THEN LET r == dropLeading(rest, {"/"})
                 auth == parseAuthority(before(r, AuthorityEnd), scheme, TRUE)
             IN  IF auth = None THEN None
                 ELSE Some(urlTail(from(r, AuthorityEnd), auth[1], scheme, TRUE))
        ELSE IF startsWith(rest, <<"/", "/">>)
        THEN LET r == SubSeq(rest, 3, Len(rest))
                 auth == parseAuthority(before(r, AuthorityEnd), scheme, FALSE)
             IN  IF auth = None THEN None
                 ELSE Some(urlTail(from(r, AuthorityEnd), auth[1], scheme, FALSE))
        ELSE Some(urlTail(rest, [hostname |-> <<>>, port |-> <<>>], scheme, FALSE))

\* [...parsed.searchParams.keys()].length: one pair per non-empty piece of
\* the query between "&".
searchParamsKeys(search) ==
    IF Len(search) = 0 THEN 0
    ELSE Len(filterNonEmpty(split(Tail(search), {"&"})))

(***************************************************************************)
(* ml-analyzer.ts                                                          *)
(*  - entropy is kept in millionths of a bit;                              *)
(*  - a ratio or a similarity is the fraction [n, d] of the two integers   *)
(*    the code divides, compared by cross-multiplication.                  *)
(***************************************************************************)
SUSPICIOUS_TLDS ==
    {  <<"t", "k">>,
       <<"m", "l">>,
       <<"g", "a">>,
       <<"c", "f">>,
       <<"g", "q">>,
       <<"p", "w">>,
       <<"c", "c">>,
       <<"x", "y", "z">>,
       <<"t", "o", "p">>,
       <<"c", "l", "u", "b">>,
       <<"o", "n", "l", "i", "n", "e">>,
       <<"s", "i", "t", "e">>,
       <<"w", "e", "b", "s", "i", "t", "e">>,
       <<"s", "t", "o", "r", "e">>,
       <<"t", "e", "c", "h">>,
       <<"i", "n", "f", "o">>,
       <<"b", "i", "z">>,
       <<"w", "o", "r", "k">>,
       <<"r", "e", "s", "t">>,
       <<"k", "i", "m">>,
       <<"c", "o", "u", "n", "t", "r", "y">>,
       <<"s", "t", "r", "e", "a", "m">>,
       <<"d", "o", "w", "n", "l", "o", "a", "d">>,
       <<"r", "a", "c", "i", "n", "g">>,
       <<"r", "e", "v", "i", "e", "w">>,
       <<"t", "r", "a", "d", "e">>,
       <<"a", "c", "c", "o", "u", "n", "t", "a", "n", "t">>,
       <<"s", "c", "i", "e", "n", "c", "e">>,
       <<"d", "a", "t", "e">>,
       <<"f", "a", "i", "t", "h">>,
       <<"l", "o", "a", "n">> }

SUSPICIOUS_KEYWORDS ==
    << <<"l", "o", "g", "i", "n">>,
       <<"s", "i", "g", "n", "i", "n">>,
       <<"s", "i", "g", "n", "-", "i", "n">>,
       <<"a", "c", "c", "o", "u", "n", "t">>,
       <<"v", "e", "r", "i", "f", "y">>,
       <<"v", "e", "r", "i", "f", "i", "c", "a", "t", "i", "o", "n">>,
       <<"s", "e", "c", "u", "r", "e">>,
       <<"s", "e", "c", "u", "r", "i", "t", "y">>,
       <<"u", "p", "d", "a", "t", "e">>,
       <<"c", "o", "n", "f", "i", "r", "m">>,
       <<"p", "a", "s", "s", "w", "o", "r", "d">>,
       <<"c", "r", "e", "d", "e", "n", "t", "i", "a", "l">>,
       <<"b", "a", "n", "k", "i", "n", "g">>,
       <<"p", "a", "y", "p", "a", "l">>,
       <<"a", "m", "a", "z", "o", "n">>,
       <<"a", "p", "p", "l", "e">>,
       <<"m", "i", "c", "r", "o", "s", "o", "f", "t">>,
       <<"g", "o", "o", "g", "l", "e">>,
       <<"n", "e", "t", "f", "l", "i", "x">>,
       <<"f", "a", "c", "e", "b", "o", "o", "k">>,
       <<"i", "n", "s", "t", "a", "g", "r", "a", "m">>,
       <<"i", "n", "v", "o", "i", "c", "e">>,
       <<"p", "a", "y", "m", "e", "n", "t">>,
       <<"r", "e", "s", "e", "t">>,
       <<"s", "u", "p", "p", "o", "r", "t">>,
       <<"h", "e", "l", "p", "d", "e", "s", "k">>,
       <<"c", "u", "s", "t", "o", "m", "e", "r">>,
       <<"s", "e", "r", "v", "i", "c", "e">>,
       <<"w", "a", "l", "l", "e", "t">>,
       <<"c", "r", "y", "p", "t", "o">>,
       <<"p", "r", "i", "z", "e">>,
       <<"w", "i", "n", "n", "e", "r">>,
       <<"l", "u", "c", "k", "y">>,
       <<"f", "r", "e", "e">>,
       <<"g", "i", "f", "t">>,
       <<"c", "l", "a", "i", "m">>,
       <<"r", "e", "w", "a", "r", "d">> >>

WELL_KNOWN_BRANDS ==
    << <<"p", "a", "y", "p", "a", "l">>,
       <<"a", "m", "a", "z", "o", "n">>,
       <<"a", "p", "p", "l", "e">>,
       <<"m", "i", "c", "r", "o", "s", "o", "f", "t">>,
       <<"g", "o", "o", "g", "l", "e">>,
       <<"f", "a", "c", "e", "b", "o", "o", "k">>,
       <<"i", "n", "s", "t", "a", "g", "r", "a", "m">>,
       <<"n", "e", "t", "f", "l", "i", "x">>,
       <<"l", "i", "n", "k", "e", "d", "i", "n">>,
       <<"t", "w", "i", "t", "t", "e", "r">>,
       <<"x">>,
       <<"d", "r", "o", "p", "b", "o", "x">>,
       <<"g", "i", "t", "h", "u", "b">>,
       <<"g", "m", "a", "i", "l">>,
       <<"o", "u", "t", "l", "o", "o", "k">>,
       <<"y", "a", "h", "o", "o">>,
       <<"b", "a", "n", "k", "o", "f", "a", "m", "e", "r", "i", "c", "a">>,
       <<"c", "h", "a", "s", "e">>,
       <<"w", "e", "l", "l", "s", "f", "a", "r", "g", "o">>,
       <<"c", "i", "t", "i", "b", "a", "n", "k">>,
       <<"b", "a", "r", "c", "l", "a", "y", "s">>,
       <<"h", "s", "b", "c">>,
       <<"d", "h", "l">>,
       <<"f", "e", "d", "e", "x">>,
       <<"u", "p", "s">> >>

\* HOMOGLYPH_MAP in the order of Object.entries, one <<orig, sub>> pair per
\* substitute.  The Greek and IPA substitutes are left out: a parsed
\* hostname is ASCII.
HOMOGLYPH_MAP ==
    << <<"a", "@">>, <<"a", "4">>,
       <<"e", "3">>,
       <<"i", "1">>, <<"i", "l">>, <<"i", "!">>,
       <<"o", "0">>,
       <<"s", "5">>, <<"s", "$">>,
       <<"t", "7">>, <<"t", "+">>,
       <<"l", "1">>, <<"l", "I">>,
       <<"g", "9">>, <<"g", "q">> >>

Frac(a, b) == [n |-> a, d |-> b]
ZERO == Frac(0, 1)
\* x > p / q for a fraction x with x.d > 0 and q > 0
fracGt(x, p, q) == x.n * q > p * x.d
fracGtFrac(x, y) == x.n * y.d > y.n * x.d

Min3(a, b, c) == MinOf(a, MinOf(b, c))

\* One row of the dp table of levenshtein: row i from row i - 1.
RECURSIVE levRow(_, _, _, _)
levRow(prev, ai, b, row) ==
    IF Len(row) = Len(b) + 1 THEN row
    ELSE LET j == Len(row)
             cell == IF ai = b[j]
                     THEN prev[j]
                     ELSE 1 + Min3(prev[j + 1], row[j], prev[j])
         IN  levRow(prev, ai, b, Append(row, cell))

RECURSIVE levRows(_, _, _, _)
levRows(a, b, i, prev) ==
    IF i > Len(a) THEN prev
    ELSE levRows(a, b, i + 1, levRow(prev, a[i], b, <<i>>))

\* dp[m][n]; row 0 is 0..n, column 0 of row i is i.
levenshtein(a, b) ==
    levRows(a, b, 1, [j \in 1..(Len(b) + 1) |-> j - 1])[Len(b) + 1]

RECURSIVE normaliseFrom(_, _)
normaliseFrom(out, k) ==
    IF k > Len(HOMOGLYPH_MAP) THEN out
    ELSE normaliseFrom(replaceAll(out, HOMOGLYPH_MAP[k][2], HOMOGLYPH_MAP[k][1]), k + 1)

homoglyphNormalise(str) == normaliseFrom(toLowerCase(str), 1)

\* 1 - dist / Math.max(normalDomain.length, brand.length)
similarity(normalDomain, brand) ==
    LET longest == MaxOf(Len(normalDomain), Len(brand))
    IN  Frac(longest - levenshtein(normalDomain, brand), longest)

\* The loop over WELL_KNOWN_BRANDS.  sim > running maximum replaces the
\* maximum, so each score ends as the first of the largest candidates.
firstLargest(sims, among) ==
    IF among = {} THEN ZERO
    ELSE LET k == CHOOSE i \in among :
                      /\ \A j \in among : ~fracGtFrac(sims[j], sims[i])
                      /\ \A j \in among : j < i => fracGtFrac(sims[i], sims[j])
         IN  sims[k]

brandLoop(label, normalDomain) ==
    LET Brands == 1..Len(WELL_KNOWN_BRANDS)
        sims == [k \in Brands |-> similarity(normalDomain, WELL_KNOWN_BRANDS[k])]
        positive == {k \in Brands : sims[k].n > 0}
        close == {k \in Brands : label # normalDomain /\ fracGt(sims[k], 8, 10)}
    IN  [brandSimilarityScore |-> firstLargest(sims, positive),
         homoglyphScore |-> firstLargest(sims, close)]

\* /^(\d{1,3}\.){3}\d{1,3}$/ and /^\[?[0-9a-fA-F:]+\]?$/ on the hostname
isDottedQuad(hostname) ==
    LET parts == split(hostname, {"."})
    IN  /\ Len(parts) = 4
        /\ \A i \in 1..4 : Len(parts[i]) \in 1..3 /\ allIn(parts[i], Digits)

isHexColon(hostname) ==
    LET a == IF Len(hostname) > 0 /\ hostname[1] = "[" THEN Tail(hostname) ELSE hostname
        b == IF Len(a) > 0 /\ a[Len(a)] = "]" THEN SubSeq(a, 1, Len(a) - 1) ELSE a
    IN  Len(b) > 0 /\ allIn(b, HexDigits \cup {":"})

\* (full.match(/%[0-9a-fA-F]{2}/g) ?? []).length; matches do not overlap,
\* and a match cannot start inside another one ("%" is no hex digit).
encodedTriplets(full) ==
    Cardinality({i \in 1..(Len(full) - 2) :
        full[i] = "%" /\ full[i + 1] \in HexDigits /\ full[i + 2] \in HexDigits})

PlainChars == LowerLetters \cup UpperLetters \cup Digits \cup {"/", ":", ".", "-"}

\* Length of the longest piece of the domain between "-", "_" and ".".
RECURSIVE longestOf(_)
longestOf(words) ==
    IF Len(words) = 0 THEN 0 ELSE MaxOf(Len(words[1]), longestOf(Tail(words)))

\* Mutant of buildFallbackFeatures: the structural fields are computed from
\* the raw string as if it were a host name.
buildFallbackFeatures_Structural(raw) ==
    [ url |-> raw,
      length |-> Len(raw),
      entropy |-> shannonEntropy(raw),
      dotCount |-> countIn(raw, {"."}),
      dashCount |-> countIn(raw, {"-"}),
      underscoreCount |-> countIn(raw, {"_"}),
      atSymbolCount |-> countIn(raw, {"@"}),
      slashCount |-> countIn(raw, {"/"}),
      queryParamCount |-> 0,
      fragmentCount |-> 0,
      subdomainDepth |-> 0,
      pathDepth |-> 0,
      hasIpAddress |-> FALSE,
      hasHttps |-> FALSE,
      hasSuspiciousTld |-> FALSE,
      hasSuspiciousKeywords |-> \E k \in 1..Len(SUSPICIOUS_KEYWORDS) :
                                   includes(toLowerCase(raw), SUSPICIOUS_KEYWORDS[k]),
      hasEncodedChars |-> FALSE,
      hasDataUri |-> FALSE,
      hasPortInUrl |-> FALSE,
      tld |-> <<>>,
      domain |-> raw,
      subdomain |-> <<>>,
      digitRatio |-> Frac(countIn(raw, Digits), MaxOf(1, Len(raw))),
      specialCharRatio |-> ZERO,
      longestWordLength |-> 0,
      homoglyphScore |-> ZERO,
      brandSimilarityScore |-> ZERO ]

buildFallbackFeatures(raw) ==
    [ url |-> raw,
      length |-> Len(raw),
      entropy |-> shannonEntropy(raw),
      dotCount |-> countIn(raw, {"."}),
      dashCount |-> countIn(raw, {"-"}),
      underscoreCount |-> countIn(raw, {"_"}),
      atSymbolCount |-> countIn(raw, {"@"}),
      slashCount |-> countIn(raw, {"/"}),
      queryParamCount |-> 0,
      fragmentCount |-> 0,
      subdomainDepth |-> 0,
      pathDepth |-> 0,
      hasIpAddress |-> FALSE,
      hasHttps |-> FALSE,
      hasSuspiciousTld |-> FALSE,
      hasSuspiciousKeywords |-> FALSE,
      hasEncodedChars |-> FALSE,
      hasDataUri |-> FALSE,
      hasPortInUrl |-> FALSE,
      tld |-> <<>>,
      domain |-> raw,
      subdomain |-> <<>>,
      digitRatio |-> ZERO,
      specialCharRatio |-> ZERO,
      longestWordLength |-> 0,
      homoglyphScore |-> ZERO,
      brandSimilarityScore |-> ZERO ]

\* The body of extractUrlFeatures after the URL was parsed.
parsedFeatures(raw, parsed) ==
    LET full == raw
        hostname == toLowerCase(parsed.hostname)
        parts == split(hostname, {"."})
        tld == parts[Len(parts)]
        domain == join(SubSeq(parts, MaxOf(1, Len(parts) - 1), Len(parts)), ".")
        subdomain == join(SubSeq(parts, 1, Len(parts) - 2), ".")
        label == split(domain, {"."})[1]
        normalDomain == homoglyphNormalise(label)
        scores == brandLoop(label, normalDomain)
        domainWords == filterNonEmpty(split(domain, {"-", "_", "."}))
    IN  [ url |-> raw,
          length |-> Len(full),
          entropy |-> shannonEntropy(full),
          dotCount |-> countIn(full, {"."}),
          dashCount |-> countIn(full, {"-"}),
          underscoreCount |-> countIn(full, {"_"}),
          atSymbolCount |-> countIn(full, {"@"}),
          slashCount |-> countIn(full, {"/"}),
          queryParamCount |-> searchParamsKeys(parsed.search),
          fragmentCount |-> IF Len(parsed.hash) > 0 THEN 1 ELSE 0,
          subdomainDepth |-> IF Len(subdomain) > 0 THEN Len(split(subdomain, {"."})) ELSE 0,
          pathDepth |-> Len(filterNonEmpty(split(parsed.pathname, {"/"}))),
          hasIpAddress |-> isDottedQuad(hostname) \/ isHexColon(hostname),
          hasHttps |-> parsed.protocol = <<"h", "t", "t", "p", "s", ":">>,
          hasSuspiciousTld |-> toLowerCase(tld) \in SUSPICIOUS_TLDS,
          hasSuspiciousKeywords |-> \E k \in 1..Len(SUSPICIOUS_KEYWORDS) :
                                       includes(toLowerCase(full), SUSPICIOUS_KEYWORDS[k]),
          hasEncodedChars |-> encodedTriplets(full) > 3,
          hasDataUri |-> startsWith(toLowerCase(full), <<"d", "a", "t", "a", ":">>),
          hasPortInUrl |-> Len(parsed.port) > 0 /\ parsed.port \notin {<<"8", "0">>, <<"4", "4", "3">>},
          tld |-> tld,
          domain |-> domain,
          subdomain |-> subdomain,
          digitRatio |-> Frac(countIn(full, Digits), Len(full)),
          specialCharRatio |-> Frac(Len(full) - countIn(full, PlainChars), Len(full)),
          longestWordLength |-> longestOf(domainWords),
          homoglyphScore |-> scores.homoglyphScore,
          brandSimilarityScore |-> scores.brandSimilarityScore ]

\* The try/catch around new URL: the fallback record when the parser
\* throws, the parsed branch otherwise.
featuresOf(raw, parsed) ==
    IF parsed = None THEN buildFallbackFeatures(raw) ELSE parsedFeatures(raw, parsed[1])

extractUrlFeatures(raw) ==
    featuresOf(raw, newURL(IF startsWith(raw, <<"h", "t", "t", "p">>)
                           THEN raw ELSE <<"h", "t", "t", "p", ":", "/", "/">> \o raw))

\* WELL_KNOWN_BRANDS.find(b => f.domain.includes(b)) ?? '___'
containedBrand(domain) ==
    LET hits == {k \in 1..Len(WELL_KNOWN_BRANDS) : includes(domain, WELL_KNOWN_BRANDS[k])}
    IN  IF hits = {} THEN <<"_", "_", "_">>
        ELSE WELL_KNOWN_BRANDS[CHOOSE k \in hits : \A j \in hits : k <= j]

\* Mutant of ruleTable: "Multiple subdomains" is a plain if, not the else
\* branch of "Excessive subdomain depth".
ruleTable_IndependentRules(f) ==
    << [when |-> f.hasIpAddress, score |-> 20, label |-> Label("IP-based domain detected")],
       [when |-> ~f.hasHttps, score |-> 12, label |-> Label("Non-HTTPS connection")],
       [when |-> f.hasSuspiciousTld, score |-> 15,
        label |-> Label("Suspicious TLD (." \o Str(f.tld) \o ")")],
       [when |-> f.hasSuspiciousKeywords, score |-> 14, label |-> Label("Suspicious keywords in URL")],
       [when |-> f.hasEncodedChars, score |-> 8, label |-> Label("Excessive percent-encoding")],
       [when |-> f.hasDataUri, score |-> 25, label |-> Label("Data URI scheme detected")],
       [when |-> f.hasPortInUrl, score |-> 10, label |-> Label("Non-standard port in URL")],
       [when |-> f.atSymbolCount > 0, score |-> 20, label |-> Label("At-sign (@) in URL")],
       [when |-> f.subdomainDepth >= 4, score |-> 15, label |-> Label("Excessive subdomain depth")],
       [when |-> f.subdomainDepth >= 2,
        score |-> 6, label |-> Label("Multiple subdomains")],
       [when |-> f.length > 100, score |-> 8, label |-> Label("Unusually long URL")],
       [when |-> f.entropy > 4500000, score |-> 10, label |-> Label("High URL entropy (randomised)")],
       [when |-> fracGt(f.digitRatio, 3, 10), score |-> 8, label |-> Label("High digit ratio in URL")],
       [when |-> f.dashCount > 4, score |-> 6, label |-> Label("Excessive dashes in domain")],
       [when |-> f.dotCount > 6, score |-> 6, label |-> Label("Excessive dots in URL")],
       [when |-> f.queryParamCount > 5, score |-> 5, label |-> Label("Many query parameters")],
       [when |-> fracGt(f.homoglyphScore, 8, 10), score |-> 22,
        label |-> Label("Homoglyph brand impersonation detected")],
       [when |-> /\ ~fracGt(f.homoglyphScore, 8, 10)
                 /\ fracGt(f.brandSimilarityScore, 85, 100)
                 /\ ~includes(f.domain, containedBrand(f.domain)),
        score |-> 18, label |-> Label("Brand name similarity in domain")],
       [when |-> f.pathDepth > 6, score |-> 4, label |-> Label("Deep URL path structure")] >>

\* The if statements of scoreFeatures in source order: the condition under
\* which each one pushes, its score and its label.  An else-if carries the
\* negation of the if before it.
ruleTable(f) ==
    << [when |-> f.hasIpAddress, score |-> 20, label |-> Label("IP-based domain detected")],
       [when |-> ~f.hasHttps, score |-> 12, label |-> Label("Non-HTTPS connection")],
       [when |-> f.hasSuspiciousTld, score |-> 15,
        label |-> Label("Suspicious TLD (." \o Str(f.tld) \o ")")],
       [when |-> f.hasSuspiciousKeywords, score |-> 14, label |-> Label("Suspicious keywords in URL")],
       [when |-> f.hasEncodedChars, score |-> 8, label |-> Label("Excessive percent-encoding")],
       [when |-> f.hasDataUri, score |-> 25, label |-> Label("Data URI scheme detected")],
       [when |-> f.hasPortInUrl, score |-> 10, label |-> Label("Non-standard port in URL")],
       [when |-> f.atSymbolCount > 0, score |-> 20, label |-> Label("At-sign (@) in URL")],
       [when |-> f.subdomainDepth >= 4, score |-> 15, label |-> Label("Excessive subdomain depth")],
       [when |-> ~(f.subdomainDepth >= 4) /\ f.subdomainDepth >= 2,
        score |-> 6, label |-> Label("Multiple subdomains")],
       [when |-> f.length > 100, score |-> 8, label |-> Label("Unusually long URL")],
       [when |-> f.entropy > 4500000, score |-> 10, label |-> Label("High URL entropy (randomised)")],
       [when |-> fracGt(f.digitRatio, 3, 10), score |-> 8, label |-> Label("High digit ratio in URL")],
       [when |-> f.dashCount > 4, score |-> 6, label |-> Label("Excessive dashes in domain")],
       [when |-> f.dotCount > 6, score |-> 6, label |-> Label("Excessive dots in URL")],
       [when |-> f.queryParamCount > 5, score |-> 5, label |-> Label("Many query parameters")],
       [when |-> fracGt(f.homoglyphScore, 8, 10), score |-> 22,
        label |-> Label("Homoglyph brand impersonation detected")],
       [when |-> /\ ~fracGt(f.homoglyphScore, 8, 10)
                 /\ fracGt(f.brandSimilarityScore, 85, 100)
                 /\ ~includes(f.domain, containedBrand(f.domain)),
        score |-> 18, label |-> Label("Brand name similarity in domain")],
       [when |-> f.pathDepth > 6, score |-> 4, label |-> Label("Deep URL path structure")] >>

fired(r) == r.when

\* The array the pushes build: score and label of each rule that fired.
pushedIndicators(rules) ==
    [i \in 1..Len(rules) |-> [score |-> rules[i].score, label |-> rules[i].label]]

scoreFeatures(f) == pushedIndicators(SelectSeq(ruleTable(f), fired))

\* Mutant of mlAnalysisResult: the raw sum is returned without the cap.
mlAnalysisResult_Uncapped(f, scored) ==
    [ features |-> f,
      riskScore |-> sumSeq([i \in 1..Len(scored) |-> scored[i].score]),
      confidence |-> MinOf(98, 50 + Len(scored) * 6),
      indicators |-> [i \in 1..Len(scored) |-> scored[i].label] ]

\* The result analyseUrl builds from the features and the scored
\* indicators; confidence in hundredths.  modelVersion and processingMs are
\* not modelled.
mlAnalysisResult(f, scored) ==
    [ features |-> f,
      riskScore |-> MinOf(100, sumSeq([i \in 1..Len(scored) |-> scored[i].score])),
      confidence |-> MinOf(98, 50 + Len(scored) * 6),
      indicators |-> [i \in 1..Len(scored) |-> scored[i].label] ]

analyseFeatures(f) == mlAnalysisResult(f, scoreFeatures(f))

analyseUrl(url) == analyseFeatures(extractUrlFeatures(url))

(***************************************************************************)
(* URL analysis: analyseUrl on a raw URL string.                           *)
(***************************************************************************)
UrlPrefixes ==
    { <<>>,
      <<"h", "t", "t", "p", ":", "/", "/">>,
      <<"h", "t", "t", "p", "s", ":", "/", "/">> }

UrlHosts ==
    { <<>>,
      <<"p", "a", "y", "p", "a", "l", ".", "c", "o", "m">>,
      <<"g", "o", "o", "g", "l", "e", ".", "c", "o", "m">>,
      <<"n", "e", "t", "f", "l", "i", "x", ".", "c", "o", "m">>,
      <<"a", "m", "a", "z", "o", "n", ".", "c", "o", "m">>,
      <<"p", "a", "y", "p", "a", "1", "-", "s", "e", "c", "u", "r", "e", ".", "t", "k">>,
      <<"p", "a", "y", "p", "a", "1", ".", "t", "k">>,
      <<"d", "r", "o", "p", "b", "u", "x", ".", "c", "o", "m">>,
      <<"f", "a", "c", "e", "b", "o", "k", ".", "c", "o", "m">>,
      <<"g", "0", "0", "g", "l", "e", ".", "c", "o", "m">>,
      <<"m", "i", "c", "r", "o", "s", "0", "f", "t", ".", "x", "y", "z">>,
      <<"e", "x", "a", "m", "p", "l", "e", ".", "o", "r", "g">>,
      <<"a", ".", "b", ".", "e", "x", "a", "m", "p", "l", "e", ".", "o", "r", "g">>,
      <<"a", ".", "b", ".", "c", ".", "d", ".", "e", "x", "a", "m", "p", "l", "e", ".", "o", "r", "g">>,
      <<"1", "9", "2", ".", "1", "6", "8", ".", "0", ".", "1">>,
      <<"c", "a", "f", "e">>,
      <<"b", "a", "d", " ", "h", "o", "s", "t">> }

UrlPorts ==
    { <<>>,
      <<":", "8", "0", "8", "0">> }

UrlSuffixes ==
    { <<>>,
      <<"/", "l", "o", "g", "i", "n">>,
      <<"/", "a", "/", "b", "/", "c", "/", "d", "/", "e", "/", "f", "/", "g", "?", "a", "=", "1", "&", "b", "=", "2", "&", "c", "=", "3", "&", "d", "=", "4", "&", "e", "=", "5", "&", "f", "=", "6">>,
      <<"/", "%", "4", "1", "%", "4", "2", "%", "4", "3", "%", "4", "4", "/", "-", "/", "-", "/", "-", "/", "-", "/", "-", "/", "u", "@", "v", ".", "w", ".", "x", ".", "y", ".", "z">>,
      <<"/", "1", "2", "3", "4", "5", "6", "7", "8", "9", "0", "1", "2", "3", "4", "5", "6", "7", "8", "9", "0", "1", "2", "3", "4", "5", "6", "7", "8", "9", "0", "1", "2", "3", "4", "5", "6", "7", "8", "9", "0">>,
      <<"/", "A", "B", "C", "D", "E", "F", "G", "H", "I", "J", "K", "L", "M", "N", "O", "P", "Q", "R", "S", "T", "U", "V", "W", "X", "Y", "Z", "a", "b", "d", "f", "j", "k", "n", "q", "r", "u", "v", "w", "x", "y", "z", "0", "1", "2", "3", "4", "5", "6", "7", "8", "9", "_", "~", "!", "$", "&", "'", "(", ")", "*", "+", ",", ";", "=", "A", "B", "C", "D", "E", "F", "G", "H", "I", "J", "K", "L", "M", "N", "O", "P", "Q", "R", "S", "T", "U", "V", "W", "X", "Y">> }

CuratedUrls ==
    { <<"n", "o", "t", " ", "a", " ", "u", "r", "l", " ", "?", "?">>,
      <<"d", "a", "t", "a", ":", "8", "0", "/", "x">>,
      <<"d", "a", "t", "a", ":", "t", "e", "x", "t", "/", "h", "t", "m", "l", ",", "h", "i">>,
      <<"h", "t", "t", "p", "x", ":", "/", "/">>,
      <<"h", "t", "t", "p", "x", ":", "/", "/", "f", "o", "o">>,
      <<"h", "t", "t", "p", ":", "/", "/", "x", ".", "c", "o", "m", ":", "8", "0", "/">>,
      <<"h", "t", "t", "p", "s", ":", "/", "/", "a", ".", "c", "o", "m", ":", "4", "4", "3">>,
      <<"H", "T", "T", "P", ":", "/", "/", "E", "X", "A", "M", "P", "L", "E", ".", "C", "O", "M">>,
      <<"h", "t", "t", "p", "s", ":", "/", "/", "u", "s", "e", "r", "@", "e", "v", "i", "l", ".", "c", "o", "m", "/">>,
      <<"h", "t", "t", "p", ":", "/", "/", "1", ".", "2", ".", "3">>,
      <<"h", "t", "t", "p", "s", ":", "/", "/", "l", "i", "n", "k", "e", "d", "i", "n", ".", "c", "o", "m">>,
      <<"h", "t", "t", "p", "s", ":", "/", "/", "i", "n", "s", "t", "a", "g", "r", "a", "n", ".", "c", "o", "m">>,
      <<"l", "o", "g", "i", "n", " ", "1", "2", "3">>,
      <<"h", "t", "t", "p", ":", "/", "/", "1", ".", "2", ".", "3", ".", "4", ":", "8", "0", "8", "0", "/", "l", "o", "g", "i", "n", "-", "a", "-", "b", "-", "c", "-", "d", "-", "e", "/", "2", "/", "3", "/", "4", "/", "5", "/", "6", "/", "7", "?", "a", "@", "b">>,
      <<"d", "a", "t", "a", ":", "8", "0", "8", "0", "@", "9", ".", "8", ".", "7", ".", "6", ".", "5", ".", "4", ".", "3", ".", "2", ".", "1", ".", "p", "a", "y", "p", "a", "1", ".", "t", "k", ":", "8", "4", "4", "3", "/", "l", "o", "g", "i", "n", "/", "%", "4", "1", "%", "4", "2", "%", "4", "3", "%", "4", "4", "/", "-", "/", "-", "/", "-", "/", "-", "/", "-", "/", "1", "/", "2", "?", "a", "=", "1", "&", "b", "=", "2", "&", "c", "=", "3", "&", "d", "=", "4", "&", "e", "=", "5", "&", "f", "=", "6">> }

UrlInputs ==
    CuratedUrls \cup
    {p \o h \o o \o x : p \in UrlPrefixes, h \in UrlHosts, o \in UrlPorts, x \in UrlSuffixes}

InitUrl ==
    /\ rawUrl \in UrlInputs
    /\ features = None
    /\ ml = None
    /\ llm = None
    /\ threatIntel = None
    /\ fusion = None
    /\ pc = "analyse"
    /\ config = None
    /\ options = None
    /\ upstream = None
    /\ emailUrls = <<>>
    /\ returned = None
    /\ urlResults = <<>>
    /\ ServicesIdle

AnalyseUrl ==
    /\ pc = "analyse"
    /\ ml' = Some(analyseUrl(rawUrl))
    /\ features' = Some(ml'[1].features)
    /\ pc' = "analysed"
    /\ UNCHANGED <<rawUrl, llm, threatIntel, fusion, scanVars, serviceVars>>

NextUrl == AnalyseUrl

SpecUrl == InitUrl /\ [][NextUrl]_vars

(***************************************************************************)
(* Properties of the URL analysis                                          *)
(***************************************************************************)
Analysed == pc = "analysed"

\* The string handed to the URL parser, and whether the parser rejects it.
Candidate(raw) == IF startsWith(raw, <<"h", "t", "t", "p">>) THEN raw ELSE <<"h", "t", "t", "p", ":", "/", "/">> \o raw
Unparseable(raw) == newURL(Candidate(raw)) = None

\* Sum of the scores of the rules whose condition holds on f.
FiredSum(f) ==
    LET rules == ruleTable(f)
    IN  sumSeq([i \in 1..Len(rules) |-> IF rules[i].when THEN rules[i].score ELSE 0])

HasIndicator(text) ==
    \E i \in 1..Len(ml[1].indicators) : ml[1].indicators[i] = Label(text)

\* C11: for every input, analyseUrl's riskScore is min(100, sum of the
\* weights of the fired rules): an integer in 0..100, never above 100, and
\* exactly 100 whenever the fired weights sum to 100 or more.
C11_CappedSum ==
    Analysed =>
        LET sum == FiredSum(features[1])
        IN  /\ ml[1].riskScore \in 0..100
            /\ ml[1].riskScore = (IF sum < 100 THEN sum ELSE 100)
            /\ sum >= 100 => ml[1].riskScore = 100

\* An analysed URL whose fired weights sum to more than 100.
C11_Witness ==
    /\ Analysed
    /\ FiredSum(features[1]) > 100
    /\ ml[1].riskScore = 100

C13_DomainNonEmpty ==
    Analysed => Len(features[1].domain) > 0

\* The first label of the domain field.
FirstLabel(f) == split(f.domain, {"."})[1]
IsBrand(label) == \E k \in 1..Len(WELL_KNOWN_BRANDS) : WELL_KNOWN_BRANDS[k] = label

\* C14: homoglyphScore is non-zero only when the substitution changed the
\* first domain label; a parsed URL whose first domain label is verbatim a
\* known brand has brandSimilarityScore 1 and homoglyphScore 0, and the
\* homoglyph rule does not fire for it.
C14_VerbatimBrand ==
    (Analysed /\ ~Unparseable(rawUrl)) =>
        LET f == features[1]
        IN  /\ f.homoglyphScore.n > 0 => homoglyphNormalise(FirstLabel(f)) # FirstLabel(f)
            /\ IsBrand(FirstLabel(f)) =>
                   /\ f.brandSimilarityScore.n = f.brandSimilarityScore.d
                   /\ f.homoglyphScore.n = 0
                   /\ ~HasIndicator("Homoglyph brand impersonation detected")

\* C15: analyseUrl("https://paypa1-secure.tk/login") has a homoglyph or
\* brand impersonation indicator and a suspicious-TLD indicator, and its
\* riskScore is at least 60.
C15_Paypa1Secure ==
    (Analysed /\ rawUrl = <<"h", "t", "t", "p", "s", ":", "/", "/", "p", "a", "y", "p", "a", "1", "-", "s", "e", "c", "u", "r", "e", ".", "t", "k", "/", "l", "o", "g", "i", "n">>) =>
        /\ \/ HasIndicator("Homoglyph brand impersonation detected")
           \/ HasIndicator("Brand name similarity in domain")
        /\ HasIndicator("Suspicious TLD (.tk)")
        /\ ml[1].riskScore >= 60

\* The labels of the rule table in source order, for the features f.
RuleOrder(f) ==
    << "IP-based domain detected", "Non-HTTPS connection",
       "Suspicious TLD (." \o Str(f.tld) \o ")", "Suspicious keywords in URL",
       "Excessive percent-encoding", "Data URI scheme detected",
       "Non-standard port in URL", "At-sign (@) in URL",
       "Excessive subdomain depth", "Multiple subdomains", "Unusually long URL",
       "High URL entropy (randomised)", "High digit ratio in URL",
       "Excessive dashes in domain", "Excessive dots in URL",
       "Many query parameters", "Homoglyph brand impersonation detected",
       "Brand name similarity in domain", "Deep URL path structure" >>

PositionIn(order, text) == CHOOSE k \in 1..Len(order) : order[k] = text

\* C19: the indicators are labels of the rule table, in table order, each at
\* most once, and neither exclusive pair is returned together.
C19_TableOrder ==
    Analysed =>
        LET order == RuleOrder(features[1])
            inds == ml[1].indicators
        IN  /\ \A i \in 1..Len(inds) : \E k \in 1..Len(order) : inds[i] = Label(order[k])
            /\ \A i, j \in 1..Len(inds) :
                   i < j => PositionIn(order, inds[i].text) < PositionIn(order, inds[j].text)
            /\ ~(HasIndicator("Excessive subdomain depth") /\ HasIndicator("Multiple subdomains"))
            /\ ~(/\ HasIndicator("Homoglyph brand impersonation detected")
                 /\ HasIndicator("Brand name similarity in domain"))

\* A URL with four subdomain labels: only the deeper rule is returned.
C19_Witness ==
    /\ Analysed
    /\ features[1].subdomainDepth >= 4
    /\ HasIndicator("Excessive subdomain depth")
    /\ ~HasIndicator("Multiple subdomains")
    /\ Len(ml[1].indicators) >= 3

\* The brand that produced brandSimilarityScore: the first brand of the
\* list at the largest similarity to the normalised first label.
MatchedBrand(f) ==
    LET normal == homoglyphNormalise(FirstLabel(f))
        Brands == 1..Len(WELL_KNOWN_BRANDS)
        sim(k) == similarity(normal, WELL_KNOWN_BRANDS[k])
        k == CHOOSE i \in Brands :
                 /\ \A j \in Brands : ~fracGtFrac(sim(j), sim(i))
                 /\ \A j \in Brands : j < i => fracGtFrac(sim(i), sim(j))
    IN  WELL_KNOWN_BRANDS[k]

\* C20: when homoglyphScore <= 0.8, the brand similarity rule fires exactly
\* when brandSimilarityScore > 0.85 and the domain does not literally
\* contain the brand that produced that similarity, whatever other brands
\* the domain contains.
C20_MatchedBrandOnly ==
    (Analysed /\ ~Unparseable(rawUrl) /\ ~fracGt(features[1].homoglyphScore, 8, 10)) =>
        LET f == features[1]
        IN  HasIndicator("Brand name similarity in domain")
            <=> /\ fracGt(f.brandSimilarityScore, 85, 100)
                /\ ~includes(f.domain, MatchedBrand(f))

(***************************************************************************)
(* llm-analyzer.ts: analyseSemantically.  The provider's answer is the     *)
(* parsed JSON object, or an error (request failure, invalid JSON).  A     *)
(* field of the object is <<>> when missing; attackCategory is a raw JSON  *)
(* value [type, value].  Numeric fields are numbers or missing.            *)
(***************************************************************************)
clamp(v, min, max) == MaxOf(min, MinOf(max, v))

VALID_CATEGORIES ==
    {"NONE", "PHISHING", "CREDENTIAL_HARVESTING", "URGENCY_MANIPULATION",
     "AUTHORITY_IMPERSONATION", "BRAND_IMPERSONATION", "REWARD_BAITING",
     "FEAR_COERCION", "MALWARE_DISTRIBUTION", "SOCIAL_ENGINEERING", "UNKNOWN"}

\* Mutant of validateCategory: a value outside the set becomes NONE.
validateCategory_DefaultNone(v) ==
    IF v.type = "string" /\ v.value \in VALID_CATEGORIES THEN v.value ELSE "NONE"

validateCategory(v) ==
    IF v.type = "string" /\ v.value \in VALID_CATEGORIES THEN v.value ELSE "UNKNOWN"

buildFallback == LlmResult(0, "UNKNOWN", 0, <<>>)

orDefault(field, default) == IF IsSome(field) THEN field[1] ELSE default

\* analyseSemantically under configuration cfg when the provider answers
\* response; confidences in hundredths.
analyseSemantically(cfg, response) ==
    IF ~cfg.api.openAiKey \/ ~cfg.features.llm THEN buildFallback
    ELSE IF response.kind = "error" THEN buildFallback
    ELSE LlmResult(clamp(orDefault(response.semanticRiskScore, 0), 0, 100),
                   validateCategory(response.attackCategory),
                   clamp(orDefault(response.confidence, 50), 0, 100),
                   response.indicators)

(***************************************************************************)
(* Inputs of a scan: configuration, request options, provider answer and   *)
(* threat-intel result.                                                    *)
(***************************************************************************)
Config(key, useMl, useLlm, useTi) ==
    [api |-> [openAiKey |-> key],
     features |-> [ml |-> useMl, llm |-> useLlm, threatIntel |-> useTi]]

ConfigInputs ==
    {Config(key, TRUE, useLlm, TRUE) : key \in BOOLEAN, useLlm \in BOOLEAN}
    \cup {Config(TRUE, FALSE, TRUE, TRUE), Config(TRUE, TRUE, TRUE, FALSE)}

Options(noMl, noLlm, noTi) ==
    [skipMl |-> noMl, skipLlm |-> noLlm, skipThreatIntel |-> noTi]

OptionsInputs ==
    {Options(FALSE, FALSE, FALSE), Options(TRUE, FALSE, FALSE),
     Options(FALSE, TRUE, FALSE), Options(FALSE, FALSE, TRUE)}

RawString(x) == [type |-> "string", value |-> x]

RawCategories ==
    {RawString(c) : c \in AttackCategory \cup {"MALWARE", "phishing", ""}}
    \cup {[type |-> "number", value |-> "7"], [type |-> "undefined", value |-> ""]}

ProviderError ==
    [kind |-> "error", semanticRiskScore |-> None, attackCategory |-> RawString(""),
     confidence |-> None, indicators |-> <<>>]

ProviderJson(score, cat, conf, inds) ==
    [kind |-> "json", semanticRiskScore |-> score, attackCategory |-> cat,
     confidence |-> conf, indicators |-> inds]

ProviderResponses ==
    {ProviderError}
    \cup {ProviderJson(Some(90), c, Some(90), <<Label("Urgency language")>>) : c \in RawCategories}
    \cup {ProviderJson(sc, RawString("PHISHING"), cf, <<>>) :
             sc \in Optional({0, 90, 150}), cf \in Optional({90, 250})}

IntelInputs ==
    { TiResult(FALSE, 100, Some(GsbResult(FALSE)), Some(VtResult(0, 70)), None, <<"VirusTotal">>),
      TiResult(FALSE, 50, None, Some(VtResult(2, 70)), None, <<"VirusTotal", "WHOIS">>),
      TiResult(TRUE, 10, Some(GsbResult(TRUE)), Some(VtResult(5, 70)), None, <<"VirusTotal">>) }

UpstreamInputs ==
    {[response |-> r, intel |-> t] : r \in ProviderResponses, t \in IntelInputs}

ScanUrls ==
    { <<"h", "t", "t", "p", "s", ":", "/", "/", "e", "x", "a", "m", "p", "l", "e", ".", "o", "r", "g">>,
      <<"h", "t", "t", "p", ":", "/", "/", "1", "9", "2", ".", "1", "6", "8", ".", "0", ".", "1", ":", "8", "0", "8", "0", "/", "l", "o", "g", "i", "n">> }

(***************************************************************************)
(* POST /api/scan/url on a cache miss.  POST /api/scan/batch runs the same *)
(* three analyses and the same fuseRiskScores call for each of its URLs.   *)
(* Blockchain anchoring, the cache write and persistence are not modelled. *)
(***************************************************************************)
InitScan ==
    /\ rawUrl \in ScanUrls
    /\ config \in {Some(c) : c \in ConfigInputs}
    /\ options \in {Some(o) : o \in OptionsInputs}
    /\ upstream \in {Some(u) : u \in UpstreamInputs}
    /\ emailUrls = <<>>
    /\ features = None
    /\ ml = None
    /\ llm = None
    /\ threatIntel = None
    /\ fusion = None
    /\ returned = None
    /\ urlResults = <<>>
    /\ pc = "scan"
    /\ ServicesIdle

ScanUrl ==
    /\ pc = "scan"
    /\ ml' = IF config[1].features.ml /\ ~options[1].skipMl
             THEN Some(analyseUrl(rawUrl)) ELSE None
    /\ llm' = IF config[1].features.llm /\ ~options[1].skipLlm
              THEN Some(analyseSemantically(config[1], upstream[1].response)) ELSE None
    /\ threatIntel' = IF config[1].features.threatIntel /\ ~options[1].skipThreatIntel
                      THEN Some(upstream[1].intel) ELSE None
    /\ \E r \in fuseRiskScores(ml', llm', threatIntel') :
          /\ returned' = Some(r)
          /\ fusion' = Some(r)
    /\ pc' = "scanned"
    /\ UNCHANGED <<urlVars, config, options, upstream, emailUrls, urlResults, serviceVars>>

NextScan == ScanUrl

SpecScan == InitScan /\ [][NextScan]_vars

(***************************************************************************)
(* email-analyzer.ts: analyseEmail.  Every analyseSemantically call of one *)
(* request gets the same provider answer, every gatherThreatIntel call the *)
(* same result.  The catch branch of a URL sub-scan is not modelled: none  *)
(* of the three analyses rejects.                                          *)
(***************************************************************************)
MAX_EMAIL_URLS == 5

EmailUrlLists ==
    { <<>>,
      <<<<"h", "t", "t", "p", "s", ":", "/", "/", "e", "x", "a", "m", "p", "l", "e", ".", "o", "r", "g">>>>,
      <<<<"h", "t", "t", "p", "s", ":", "/", "/", "e", "x", "a", "m", "p", "l", "e", ".", "o", "r", "g">>, <<"h", "t", "t", "p", ":", "/", "/", "1", "9", "2", ".", "1", "6", "8", ".", "0", ".", "1", ":", "8", "0", "8", "0", "/", "l", "o", "g", "i", "n">>>>,
      <<<<"a", ".", "c", "o", "m">>, <<"b", ".", "c", "o", "m">>, <<"c", ".", "c", "o", "m">>, <<"d", ".", "c", "o", "m">>, <<"e", ".", "c", "o", "m">>, <<"h", "t", "t", "p", ":", "/", "/", "1", "9", "2", ".", "1", "6", "8", ".", "0", ".", "1", ":", "8", "0", "8", "0", "/", "l", "o", "g", "i", "n">>>> }

\* extractedUrls.slice(0, 5)
scanned(urls) == SubSeq(urls, 1, MinOf(MAX_EMAIL_URLS, Len(urls)))

\* The fusion results one URL sub-scan can return.
subScanFusions(url, cfg, up) ==
    fuseRiskScores(Some(analyseUrl(url)), Some(analyseSemantically(cfg, up.response)),
                   Some(up.intel))

SetMax(S) == CHOOSE x \in S : \A y \in S : y <= x

\* urlResults.reduce((m, r) => Math.max(m, r.fusion.unifiedRiskScore), 0)
maxUrlScore(results) ==
    SetMax({0} \cup {results[i].fusion.unifiedRiskScore : i \in 1..Len(results)})

\* Mutant of liftedScore: the mean is not raised to 70.
liftedScore_NoFloor(emailScore, maxUrl) ==
    IF maxUrl > emailScore
    THEN (emailScore + maxUrl + 1) \div 2
    ELSE emailScore

\* The lift of the email score by the highest URL score; Math.round of
\* the exact half rounds up.
liftedScore(emailScore, maxUrl) ==
    IF maxUrl > emailScore
    THEN LET mean == (emailScore + maxUrl + 1) \div 2
         IN  IF maxUrl >= 80 /\ mean < 70 THEN 70 ELSE mean
    ELSE emailScore

InitEmail ==
    /\ emailUrls \in EmailUrlLists
    /\ config \in {Some(Config(key, TRUE, useLlm, TRUE)) : key \in BOOLEAN, useLlm \in BOOLEAN}
    /\ upstream \in {Some(u) : u \in UpstreamInputs}
    /\ options = None
    /\ rawUrl = <<>>
    /\ features = None
    /\ ml = None
    /\ llm = None
    /\ threatIntel = None
    /\ fusion = None
    /\ returned = None
    /\ urlResults = <<>>
    /\ pc = "email"
    /\ ServicesIdle

AnalyseEmail ==
    /\ pc = "email"
    /\ llm' = Some(analyseSemantically(config[1], upstream[1].response))
    /\ \E emailFusion \in fuseRiskScores(None, llm', None) :
          /\ returned' = Some(emailFusion)
          /\ \E results \in [1..Len(scanned(emailUrls)) ->
                                UNION {subScanFusions(u, config[1], upstream[1]) :
                                          u \in Range(scanned(emailUrls))}] :
                /\ \A i \in 1..Len(scanned(emailUrls)) :
                       results[i] \in subScanFusions(emailUrls[i], config[1], upstream[1])
                /\ urlResults' = [i \in 1..Len(scanned(emailUrls)) |->
                                      [input |-> emailUrls[i], fusion |-> results[i]]]
          /\ fusion' = Some([emailFusion EXCEPT !.unifiedRiskScore =
                                liftedScore(emailFusion.unifiedRiskScore, maxUrlScore(urlResults'))])
    /\ pc' = "emailed"
    /\ UNCHANGED <<ml, threatIntel, urlVars, config, options, upstream, emailUrls, serviceVars>>

NextEmail == AnalyseEmail

SpecEmail == InitEmail /\ [][NextEmail]_vars

(***************************************************************************)
(* Properties of the scan flows                                            *)
(***************************************************************************)
Scanned == pc = "scanned"
Emailed == pc = "emailed"

\* C16: the fusion object placed in the final result has the
\* unifiedRiskScore, tier and recommendation that fuseRiskScores returned.
C16_Snapshot ==
    (Scanned \/ Emailed) =>
        /\ fusion[1].unifiedRiskScore = returned[1].unifiedRiskScore
        /\ fusion[1].tier = returned[1].tier
        /\ fusion[1].recommendation = returned[1].recommendation

\* The semantic layer is unconfigured, disabled or failing.
SemanticUnavailable ==
    \/ ~config[1].api.openAiKey
    \/ ~config[1].features.llm
    \/ upstream[1].response.kind = "error"

\* C17: when the semantic layer is unavailable, the semantic input handed
\* to fuseRiskScores is absent, the result is the fusion of the remaining
\* sources, and the score is not below theirs.
C17_UnavailableIsAbsent ==
    (Scanned /\ SemanticUnavailable) =>
        /\ llm = None
        /\ fusion[1] \in fuseRiskScores(ml, None, threatIntel)
        /\ \E r \in fuseRiskScores(ml, None, threatIntel) :
               fusion[1].unifiedRiskScore >= r.unifiedRiskScore

\* The provider answered with an attack category outside the closed set.
InvalidCategoryAnswered ==
    /\ llm # None
    /\ config[1].api.openAiKey
    /\ upstream[1].response.kind = "json"
    /\ ~(/\ upstream[1].response.attackCategory.type = "string"
         /\ upstream[1].response.attackCategory.value \in AttackCategory)

\* C18: the fused attackCategory is one of the 11 labels; a provider value
\* outside the set reaches the semantic result and the fused result as
\* UNKNOWN.
C18_ClosedCategory ==
    Scanned =>
        /\ fusion[1].attackCategory \in AttackCategory
        /\ Cardinality(AttackCategory) = 11
        /\ InvalidCategoryAnswered =>
               /\ llm[1].attackCategory = "UNKNOWN"
               /\ fusion[1].attackCategory = "UNKNOWN"

\* The provider answered "MALWARE", which is not a label.
C18_Witness ==
    /\ Scanned
    /\ InvalidCategoryAnswered
    /\ upstream[1].response.attackCategory = RawString("MALWARE")
    /\ fusion[1].attackCategory = "UNKNOWN"

(***************************************************************************)
(* Further properties of the URL analysis, the email lift and the fusion   *)
(***************************************************************************)

\* C21: for every input that begins with "data:" in any letter case,
\* analyseUrl reports 'Data URI scheme detected' and the rule's 25 is part
\* of the raw score, whether or not the rest of the input parses.
C21_DataUri ==
    (Analysed /\ startsWith(toLowerCase(rawUrl), <<"d", "a", "t", "a", ":">>)) =>
        /\ HasIndicator("Data URI scheme detected")
        /\ features[1].hasDataUri
        /\ FiredSum(features[1]) >= 25

RawStringRules ==
    {"Unusually long URL", "High URL entropy (randomised)", "At-sign (@) in URL",
     "Excessive dashes in domain", "Excessive dots in URL"}

NoRawCondition(raw) ==
    /\ Len(raw) <= 100
    /\ shannonEntropy(raw) <= 4500000
    /\ countIn(raw, {"@"}) = 0
    /\ countIn(raw, {"-"}) <= 4
    /\ countIn(raw, {"."}) <= 6

\* C22: for an unparseable input only the rules over the raw string
\* (length, entropy, at-signs, dashes, dots) can fire; with none of their
\* conditions the riskScore is 0 and there is no indicator.
C22_FallbackInert ==
    (Analysed /\ Unparseable(rawUrl)) =>
        /\ \A i \in 1..Len(ml[1].indicators) : ml[1].indicators[i].text \in RawStringRules
        /\ NoRawCondition(rawUrl) => (ml[1].riskScore = 0 /\ ml[1].indicators = <<>>)

\* C26: in the result of analyseEmail, fusion.tier is the tier of
\* fusion.unifiedRiskScore and fusion.recommendation is the recommendation
\* of that tier, also after a lift.
C26_TierOfFinalScore ==
    Emailed =>
        /\ fusion[1].tier = toTier(fusion[1].unifiedRiskScore)
        /\ fusion[1].recommendation =
               buildRecommendation(toTier(fusion[1].unifiedRiskScore), fusion[1].attackCategory)

UrlScores == {urlResults[i].fusion.unifiedRiskScore : i \in 1..Len(urlResults)}

TierRank(tier) ==
    CASE tier = "SAFE" -> 0
      [] tier = "SUSPICIOUS" -> 1
      [] tier = "HIGH_RISK" -> 2
      [] tier = "CONFIRMED_PHISHING" -> 3

NotLower(r) ==
    /\ r.unifiedRiskScore >= fusion[1].unifiedRiskScore
    /\ TierRank(r.tier) >= TierRank(fusion[1].tier)

RaisedMl == {Some([ml[1] EXCEPT !.riskScore = s]) : s \in {v \in ScoreVals : v > ml[1].riskScore}}
RaisedLlm ==
    {Some([llm[1] EXCEPT !.semanticRiskScore = s]) :
        s \in {v \in ScoreVals : v > llm[1].semanticRiskScore}}
LoweredReputation ==
    {Some([threatIntel[1] EXCEPT !.reputationScore = s]) :
        s \in {v \in ReputationVals : v < threatIntel[1].reputationScore}}

\* C29: with the same present sources and the same threat-intel flags, a
\* higher ml.riskScore, a higher llm.semanticRiskScore or a lower
\* threatIntel.reputationScore never gives a lower unifiedRiskScore or a
\* lower tier.
C29_Monotone ==
    Returned =>
        /\ IsSome(ml) => \A m \in RaisedMl :
               \A r \in fuseRiskScores(m, llm, threatIntel) : NotLower(r)
        /\ IsSome(llm) => \A l \in RaisedLlm :
               \A r \in fuseRiskScores(ml, l, threatIntel) : NotLower(r)
        /\ IsSome(threatIntel) => \A t \in LoweredReputation :
               \A r \in fuseRiskScores(ml, llm, t) : NotLower(r)

\* All three sources present, and a lower reputation gives a higher score.
C29_Witness ==
    /\ Returned
    /\ IsSome(ml) /\ IsSome(llm) /\ IsSome(threatIntel)
    /\ \E t \in LoweredReputation : \E r \in fuseRiskScores(ml, llm, t) :
           r.unifiedRiskScore > fusion[1].unifiedRiskScore

\* C30: whenever safeBrowsing.isMalicious is true, topIndicators contains
\* 'Listed in Google Safe Browsing', whatever the ML and semantic indicator
\* lists are.
C30_SafeBrowsingListed ==
    (Returned /\ gsbMalicious(threatIntel)) =>
        \E i \in 1..Len(fusion[1].topIndicators) : fusion[1].topIndicators[i] = GSB_LABEL

(***************************************************************************)
(* threat-intelligence.ts: gatherThreatIntel.  Each of the four sub-lookups *)
(* delivers a value or undefined (no API key, a failed request, a rejected *)
(* promise).  geoIp only contributes its name to sources.                  *)
(***************************************************************************)
Lookups(vt, gsb, wi, geo) ==
    [virusTotal |-> vt, safeBrowsing |-> gsb, whois |-> wi, geoIp |-> geo]

\* Mutant of knownMalicious: the VirusTotal threshold is 5 positives.
knownMalicious_FivePositives(lk) ==
    \/ (IF IsSome(lk.virusTotal) THEN lk.virusTotal[1].positives ELSE 0) >= 5
    \/ (IsSome(lk.safeBrowsing) /\ lk.safeBrowsing[1].isMalicious)

\* (vt?.positives ?? 0) >= 3 || (gsb?.isMalicious ?? false)
knownMalicious(lk) ==
    \/ (IF IsSome(lk.virusTotal) THEN lk.virusTotal[1].positives ELSE 0) >= 3
    \/ (IsSome(lk.safeBrowsing) /\ lk.safeBrowsing[1].isMalicious)

\* Math.round(ratio * 50) with ratio = positives / total, 0 when total is 0
vtPenalty(lk) ==
    IF IsSome(lk.virusTotal) /\ lk.virusTotal[1].total > 0
    THEN MathRound(50 * lk.virusTotal[1].positives, lk.virusTotal[1].total)
    ELSE {0}

gsbPenalty(lk) ==
    IF IsSome(lk.safeBrowsing) /\ lk.safeBrowsing[1].isMalicious THEN 40 ELSE 0

\* The two WHOIS lines: 15 below 30 days, 10 more below 7 days.
agePenalty(lk) ==
    IF IsSome(lk.whois) /\ IsSome(lk.whois[1].ageInDays)
    THEN (IF lk.whois[1].ageInDays[1] < 30 THEN 15 ELSE 0)
         + (IF lk.whois[1].ageInDays[1] < 7 THEN 10 ELSE 0)
    ELSE 0

reputationScore(lk) ==
    {MaxOf(0, 100 - v - gsbPenalty(lk) - agePenalty(lk)) : v \in vtPenalty(lk)}

sourcesOf(lk) ==
    (IF IsSome(lk.virusTotal) THEN <<"VirusTotal">> ELSE <<>>)
    \o (IF IsSome(lk.safeBrowsing) THEN <<"GoogleSafeBrowsing">> ELSE <<>>)
    \o (IF IsSome(lk.whois) THEN <<"WHOIS">> ELSE <<>>)
    \o (IF IsSome(lk.geoIp) THEN <<"IPGeolocation">> ELSE <<>>)

\* The results gatherThreatIntel can return for the given sub-lookup results.
gatherThreatIntel(lk) ==
    { TiResult(knownMalicious(lk), rep, lk.safeBrowsing, lk.virusTotal, lk.whois,
               sourcesOf(lk)) : rep \in reputationScore(lk) }

\* positives = malicious + suspicious and total = the sum of all stats, so
\* positives <= total.
VtInputs ==
    {VtResult(p, 70) : p \in {0, 2, 3, 5, 35, 70}}
    \cup {VtResult(0, 0), VtResult(1, 100), VtResult(3, 4)}

LookupInputs ==
    { Lookups(vt, gsb, wi, geo) :
        vt \in Optional(VtInputs),
        gsb \in Optional({GsbResult(b) : b \in BOOLEAN}),
        wi \in Optional({WhoisResult(a) : a \in Optional({3, 20, 400})}),
        geo \in Optional({[country |-> "US"]}) }

InitIntel ==
    /\ lookups \in {Some(lk) : lk \in LookupInputs}
    /\ ml \in Optional({MlResult(sc, 50, <<>>) : sc \in {0, 100}})
    /\ llm \in Optional({LlmResult(sc, "NONE", 50, <<>>) : sc \in {0, 100}})
    /\ threatIntel = None
    /\ fusion = None
    /\ pc = "gather"
    /\ rawUrl = <<>>
    /\ features = None
    /\ config = None
    /\ options = None
    /\ upstream = None
    /\ emailUrls = <<>>
    /\ returned = None
    /\ urlResults = <<>>
    /\ EngineConstructed
    /\ RouteIdle

GatherThreatIntel ==
    /\ pc = "gather"
    /\ \E t \in gatherThreatIntel(lookups[1]) : threatIntel' = Some(t)
    /\ pc' = "call"
    /\ UNCHANGED <<ml, llm, fusion, urlVars, scanVars, serviceVars>>

NextIntel == GatherThreatIntel \/ Fuse

SpecIntel == InitIntel /\ [][NextIntel]_vars

Gathered == IsSome(lookups) /\ pc \in {"call", "done"}

Flagged(lk) ==
    \/ (IsSome(lk.virusTotal) /\ lk.virusTotal[1].positives >= 3)
    \/ (IsSome(lk.safeBrowsing) /\ lk.safeBrowsing[1].isMalicious)

\* C24: through gatherThreatIntel and fuseRiskScores, 3 or more VirusTotal
\* positives or a Google Safe Browsing flag give knownMalicious true, tier
\* CONFIRMED_PHISHING and unifiedRiskScore >= 90 whatever the ML and
\* semantic scores are; reputationScore of gatherThreatIntel is in 0..100 for
\* every combination of sub-lookup results.
C24_KnownMalicious ==
    Gathered =>
        /\ threatIntel[1].reputationScore \in 0..100
        /\ Flagged(lookups[1]) =>
              /\ threatIntel[1].knownMalicious
              /\ pc = "done" =>
                    /\ fusion[1].tier = "CONFIRMED_PHISHING"
                    /\ fusion[1].unifiedRiskScore >= 90

\* Three positives of 70 and nothing else: ML and semantic score 0, a
\* reputation of 98, and the fused score is still 90.
C24_Witness ==
    /\ Gathered /\ pc = "done"
    /\ lookups[1].virusTotal = Some(VtResult(3, 70))
    /\ lookups[1].safeBrowsing = None
    /\ IsSome(ml) /\ ml[1].riskScore = 0
    /\ IsSome(llm) /\ llm[1].semanticRiskScore = 0
    /\ threatIntel[1].reputationScore = 98
    /\ fusion[1].unifiedRiskScore = 90

(***************************************************************************)
(* RiskFusionEngine (part_011): setWeights and getWeights                  *)
(***************************************************************************)
WeightNames == {"ml", "llm", "threat", "domainAge"}

\* Partial<typeof this.weights>: each key present or not.
PartialWeights ==
    [WeightNames -> Optional({0, 10, 20, 30, 40, 50})]

\* { ...this.weights, ...weights }
spread(w, p) == [k \in WeightNames |-> IF IsSome(p[k]) THEN p[k][1] ELSE w[k]]

\* Object.values(this.weights).reduce((a, b) => a + b, 0)
weightSum(w) == w.ml + w.llm + w.threat + w.domainAge

getWeights == weights

InitEngine ==
    /\ EngineConstructed
    /\ pc = "engine"
    /\ ml = None
    /\ llm = None
    /\ threatIntel = None
    /\ fusion = None
    /\ rawUrl = <<>>
    /\ features = None
    /\ config = None
    /\ options = None
    /\ upstream = None
    /\ emailUrls = <<>>
    /\ returned = None
    /\ urlResults = <<>>
    /\ lookups = <<>>
    /\ RouteIdle

\* One setWeights call: the merged weights are stored, then the sum is
\* validated and the call throws when it is not 100.
SetWeights ==
    /\ pc = "engine"
    /\ \E p \in PartialWeights :
          /\ weights' = spread(weights, p)
          /\ threw' = (weightSum(weights') # 100)
    /\ UNCHANGED <<ml, llm, threatIntel, fusion, pc, urlVars, scanVars, lookups, routeVars>>

NextEngine == SetWeights

SpecEngine == InitEngine /\ [][NextEngine]_vars

\* C25: the engine's weights sum to 100 in every reachable state, also after
\* a setWeights call that threw.
C25_WeightsSum == pc = "engine" => weightSum(getWeights) = 100

(***************************************************************************)
(* cache service (part_006) and the cache steps of POST /api/scan/url      *)
(***************************************************************************)
\* The ASCII characters from code 32 (space) to code 95, and from code 97
\* to code 126, in code order.
AsciiFrom32 ==
    <<
      " ", "!", "\"", "#", "$", "%", "&", "'", "(", ")", "*", "+", ",", "-",
      ".", "/", "0", "1", "2", "3", "4", "5", "6", "7", "8", "9", ":", ";",
      "<", "=", ">", "?", "@", "A", "B", "C", "D", "E", "F", "G", "H", "I",
      "J", "K", "L", "M", "N", "O", "P", "Q", "R", "S", "T", "U", "V", "W",
      "X", "Y", "Z", "[", "\\", "]", "^", "_"
    >>

AsciiFrom97 ==
    <<
      "a", "b", "c", "d", "e", "f", "g", "h", "i", "j", "k", "l", "m", "n",
      "o", "p", "q", "r", "s", "t", "u", "v", "w", "x", "y", "z", "{", "|",
      "}", "~"
    >>

\* Buffer.from(s): the UTF-8 bytes of an ASCII string
charCode(ch) ==
    IF ch \in Range(AsciiFrom32)
    THEN 31 + (CHOOSE i \in 1..Len(AsciiFrom32) : AsciiFrom32[i] = ch)
    ELSE 96 + (CHOOSE i \in 1..Len(AsciiFrom97) : AsciiFrom97[i] = ch)
bufferFrom(s) == [i \in 1..Len(s) |-> charCode(s[i])]

Base64UrlAlphabet ==
    <<
      "A", "B", "C", "D", "E", "F", "G", "H", "I", "J", "K", "L", "M", "N",
      "O", "P", "Q", "R", "S", "T", "U", "V", "W", "X", "Y", "Z", "a", "b",
      "c", "d", "e", "f", "g", "h", "i", "j", "k", "l", "m", "n", "o", "p",
      "q", "r", "s", "t", "u", "v", "w", "x", "y", "z", "0", "1", "2", "3",
      "4", "5", "6", "7", "8", "9", "-", "_"
    >>

\* The j-th group of six bits (from 0) of the bytes b, zero-filled at the end.
sextet(b, j) ==
    LET i == (6 * j) \div 8
        hi == b[i + 1]
        lo == IF i + 2 <= Len(b) THEN b[i + 2] ELSE 0
    IN  ((256 * hi + lo) \div 2^(10 - ((6 * j) % 8))) % 64

\* buf.toString('base64url'): four characters per three bytes, no padding
base64url(b) ==
    [j \in 1..((8 * Len(b) + 5) \div 6) |-> Base64UrlAlphabet[sextet(b, j - 1) + 1]]

\* s.slice(a, b) for 0 <= a <= b
slice(s, a, b) == SubSeq(s, a + 1, MinOf(b, Len(s)))

KEY_PREFIX == "guardian:scan:"
KEY_CHARS == 32

\* url.trim().toLowerCase()
normalised(url) == toLowerCase(trim(url))

buildScanCacheKey(url) ==
    KEY_PREFIX \o Str(slice(base64url(bufferFrom(normalised(url))), 0, KEY_CHARS))

\* cacheGet / cacheSet on the store in use (Redis, or memCache as fallback);
\* the value is the JSON text of the result and comes back as written.
cacheGet(store, key) ==
    IF \E e \in store : e.key = key
    THEN Some((CHOOSE e \in store : e.key = key).value)
    ELSE None

cacheSet(store, key, value) ==
    {e \in store : e.key # key} \cup {[key |-> key, value |-> value]}

\* urlSchema: a string of 3 to 2048 characters that new URL accepts.
urlSchema(v) == Len(v) >= 3 /\ Len(v) <= 2048 /\ ~Unparseable(v)

\* The ScanResult fields the model keeps; cached is absent (FALSE here) on a
\* result that was computed and true on one served from the cache.
ScanResult(url, m, l, t, f, anchored) ==
    [input |-> url, inputType |-> "URL", ml |-> m, llm |-> l, threatIntel |-> t,
     fusion |-> f, anchored |-> anchored, cached |-> FALSE]

MaxRequests == 3

\* Two URLs with the same first 24 characters, one of them also in another
\* letter case and with a trailing space, and an unrelated one.
RequestUrls ==
    { u \in { <<"h", "t", "t", "p", "s", ":", "/", "/", "w", "w", "w", ".", "e", "x", "a", "m", "p", "l", "e", ".", "c", "o", "m", "/", "a">>,
              <<"h", "t", "t", "p", "s", ":", "/", "/", "W", "W", "W", ".", "E", "x", "a", "m", "p", "l", "e", ".", "c", "o", "m", "/", "a", " ">>,
              <<"h", "t", "t", "p", "s", ":", "/", "/", "w", "w", "w", ".", "e", "x", "a", "m", "p", "l", "e", ".", "c", "o", "m", "/", "l", "o", "g", "i", "n", "-", "p", "h", "i", "s", "h">>,
              <<"h", "t", "t", "p", ":", "/", "/", "1", "9", "2", ".", "1", "6", "8", ".", "0", ".", "1", ":", "8", "0", "8", "0", "/", "l", "o", "g", "i", "n">> } : urlSchema(u) }

InitCache ==
    /\ config = Some(Config(TRUE, TRUE, TRUE, TRUE))
    /\ options = Some(Options(FALSE, FALSE, FALSE))
    /\ upstream \in {Some([response |-> ProviderError, intel |-> t]) : t \in IntelInputs}
    /\ pc = "serve"
    /\ rawUrl = <<>>
    /\ features = None
    /\ ml = None
    /\ llm = None
    /\ threatIntel = None
    /\ fusion = None
    /\ emailUrls = <<>>
    /\ returned = None
    /\ urlResults = <<>>
    /\ lookups = <<>>
    /\ EngineConstructed
    /\ RouteIdle

\* One POST /api/scan/url request from validation to res.json, with every
\* feature enabled, no analysis rejecting and the cache write succeeding.
ServeScan ==
    /\ pc = "serve"
    /\ served < MaxRequests
    /\ \E url \in RequestUrls :
          /\ rawUrl' = url
          /\ IF IsSome(cacheGet(cache, buildScanCacheKey(url)))
             THEN /\ reply' = Some([cacheGet(cache, buildScanCacheKey(url))[1]
                                       EXCEPT !.cached = TRUE])
                  /\ UNCHANGED <<ml, llm, threatIntel, fusion, returned, result, cache>>
             ELSE /\ ml' = Some(analyseUrl(url))
                  /\ llm' = Some(analyseSemantically(config[1], upstream[1].response))
                  /\ threatIntel' = Some(upstream[1].intel)
                  /\ \E r \in fuseRiskScores(ml', llm', threatIntel') :
                        /\ fusion' = Some(r)
                        /\ returned' = Some(r)
                        /\ result' = Some(ScanResult(url, ml', llm', threatIntel', r, FALSE))
                  /\ cache' = cacheSet(cache, buildScanCacheKey(url), result'[1])
                  /\ reply' = result'
    /\ served' = served + 1
    /\ UNCHANGED <<pc, features, config, options, upstream, emailUrls, urlResults,
                   lookups, engineVars, tasks, fuseCalls>>

\* An entry passes its time to live (config.redis.ttl) and is gone.
ExpireEntry ==
    /\ pc = "serve"
    /\ \E e \in cache : cache' = cache \ {e}
    /\ UNCHANGED <<ml, llm, threatIntel, fusion, pc, urlVars, scanVars, lookups,
                   engineVars, served, tasks, fuseCalls, result, reply>>

NextCache == ServeScan \/ ExpireEntry

SpecCache == InitCache /\ [][NextCache]_vars

ServedFromCache == pc = "serve" /\ IsSome(reply) /\ reply[1].cached

\* C28: a response marked cached:true for URL u has an input equal to u up
\* to trimming and letter case, and two request URLs that differ after trim
\* and lower-casing never get the same key from buildScanCacheKey.
C28_CachedBelongs ==
    /\ ServedFromCache => normalised(reply[1].input) = normalised(rawUrl)
    /\ \A u, v \in RequestUrls :
           normalised(u) # normalised(v) => buildScanCacheKey(u) # buildScanCacheKey(v)

(***************************************************************************)
(* POST /api/scan/url on a cache miss, step by step: the three analyses    *)
(* are started together and settle in any order; the handler continues     *)
(* when Promise.all settles.  POST /api/scan/batch runs the same steps for *)
(* each of its URLs, without anchoring.                                    *)
(***************************************************************************)
Sources == {"ml", "llm", "threatIntel"}

skipOption == [ml |-> "skipMl", llm |-> "skipLlm", threatIntel |-> "skipThreatIntel"]

\* config.features.X && !options.skipX
enabled(src) == config[1].features[src] /\ ~options[1][skipOption[src]]

\* What the analysis of a source resolves with when it succeeds.
analysisOf(src) ==
    IF src = "ml" THEN analyseUrl(rawUrl)
    ELSE IF src = "llm" THEN analyseSemantically(config[1], upstream[1].response)
    ELSE upstream[1].intel

PendingPromise == [status |-> "pending", value |-> None]
Fulfilled(v) == [status |-> "fulfilled", value |-> v]
Rejected == [status |-> "rejected", value |-> None]

\* Mutant of withCatch: no catch handler, a rejection stays a rejection.
withCatch_Rethrow(outcome) == outcome

\* promise.catch(err => { logger.warn(...); return null; })
withCatch(outcome) ==
    IF outcome.status = "rejected" THEN Fulfilled(None) ELSE outcome

\* A member of the Promise.all array: what the analysis did, the promise
\* handed to Promise.all, and its place in the order of completion.
Task(analysis, promise, order) ==
    [analysis |-> analysis, promise |-> promise, order |-> order]

settledCount == Cardinality({src \in Sources : tasks[src].order > 0})

InitRoute ==
    /\ rawUrl \in ScanUrls
    /\ config \in {Some(c) : c \in ConfigInputs}
    /\ options \in {Some(o) : o \in OptionsInputs}
    /\ upstream \in {Some([response |-> r, intel |-> t]) :
                        r \in {ProviderError,
                               ProviderJson(Some(90), RawString("PHISHING"), Some(90), <<>>)},
                        t \in {TiResult(TRUE, 10, Some(GsbResult(TRUE)), Some(VtResult(5, 70)),
                                        None, <<"VirusTotal">>)}}
    /\ pc = "scan"
    /\ features = None
    /\ ml = None
    /\ llm = None
    /\ threatIntel = None
    /\ fusion = None
    /\ emailUrls = <<>>
    /\ returned = None
    /\ urlResults = <<>>
    /\ lookups = <<>>
    /\ EngineConstructed
    /\ RouteIdle

\* The cache misses and the Promise.all array is built: an analysis that is
\* disabled or skipped is Promise.resolve(null).
StartAnalyses ==
    /\ pc = "scan"
    /\ cacheGet(cache, buildScanCacheKey(rawUrl)) = None
    /\ tasks' = [src \in Sources |->
                    IF enabled(src) THEN Task("pending", PendingPromise, 0)
                    ELSE Task("skipped", Fulfilled(None), 0)]
    /\ pc' = "await"
    /\ UNCHANGED <<ml, llm, threatIntel, fusion, urlVars, scanVars, lookups, engineVars,
                   cache, served, fuseCalls, result, reply>>

\* The analysis of src resolves or rejects.
Settle(src) ==
    /\ pc = "await"
    /\ tasks[src].analysis = "pending"
    /\ \E outcome \in {Fulfilled(Some(analysisOf(src))), Rejected} :
          tasks' = [tasks EXCEPT ![src] =
                       Task(outcome.status, withCatch(outcome), settledCount + 1)]
    /\ UNCHANGED <<ml, llm, threatIntel, fusion, pc, urlVars, scanVars, lookups, engineVars,
                   cache, served, fuseCalls, result, reply>>

MlSettles == Settle("ml")
LlmSettles == Settle("llm")
ThreatIntelSettles == Settle("threatIntel")

\* await Promise.all([...]) returns, or rejects with the first rejection and
\* the outer catch hands the error to next(err); then fuseRiskScores.
AwaitAll ==
    /\ pc = "await"
    /\ IF \E src \in Sources : tasks[src].promise.status = "rejected"
       THEN /\ pc' = "failed"
            /\ UNCHANGED <<ml, llm, threatIntel, fusion, fuseCalls>>
       ELSE /\ \A src \in Sources : tasks[src].promise.status = "fulfilled"
            /\ ml' = tasks["ml"].promise.value
            /\ llm' = tasks["llm"].promise.value
            /\ threatIntel' = tasks["threatIntel"].promise.value
            /\ \E r \in fuseRiskScores(ml', llm', threatIntel') : fusion' = Some(r)
            /\ fuseCalls' = fuseCalls + 1
            /\ pc' = "anchor"
    /\ UNCHANGED <<urlVars, scanVars, lookups, engineVars, cache, served, tasks, result, reply>>

\* Optional blockchain anchoring (on or off, succeeding or throwing inside
\* its own try/catch), then the ScanResult is built.
Anchor ==
    /\ pc = "anchor"
    /\ \E on \in BOOLEAN, ok \in BOOLEAN :
          result' = Some(ScanResult(rawUrl, ml, llm, threatIntel, fusion[1], on /\ ok))
    /\ pc' = "store"
    /\ UNCHANGED <<ml, llm, threatIntel, fusion, urlVars, scanVars, lookups, engineVars,
                   cache, served, tasks, fuseCalls, reply>>

\* await Promise.allSettled([cacheSet, persistScan]), whatever the two do,
\* then res.json(result).
Store ==
    /\ pc = "store"
    /\ \E written \in BOOLEAN :
          cache' = IF written THEN cacheSet(cache, buildScanCacheKey(rawUrl), result[1])
                   ELSE cache
    /\ reply' = result
    /\ served' = served + 1
    /\ pc' = "responded"
    /\ UNCHANGED <<ml, llm, threatIntel, fusion, urlVars, scanVars, lookups, engineVars,
                   tasks, fuseCalls, result>>

NextRoute ==
    \/ StartAnalyses
    \/ MlSettles
    \/ LlmSettles
    \/ ThreatIntelSettles
    \/ AwaitAll
    \/ Anchor
    \/ Store

SpecRoute == InitRoute /\ [][NextRoute]_vars

\* What the handler handed to fuseRiskScores for a source.
passed(src) ==
    IF src = "ml" THEN ml ELSE IF src = "llm" THEN llm ELSE threatIntel

\* C23: on a cache miss the three analyses settle in any order; a source
\* that rejected, is disabled or was skipped is passed as null, a source
\* that resolved is passed as resolved; fuseRiskScores is called exactly once
\* and only after all three have settled; the request never ends in an error
\* and what it sends is the ScanResult with that fusion.
C23_NullOnFailure ==
    /\ pc # "failed"
    /\ fuseCalls = (IF pc \in {"anchor", "store", "responded"} THEN 1 ELSE 0)
    /\ fuseCalls = 1 =>
          \A src \in Sources :
              /\ tasks[src].analysis \in {"skipped", "rejected", "fulfilled"}
              /\ tasks[src].analysis \in {"skipped", "rejected"} => passed(src) = None
              /\ tasks[src].analysis = "fulfilled" => passed(src) = Some(analysisOf(src))
    /\ pc = "responded" =>
          /\ IsSome(reply)
          /\ reply[1].fusion \in fuseRiskScores(ml, llm, threatIntel)
          /\ reply[1].ml = ml /\ reply[1].llm = llm /\ reply[1].threatIntel = threatIntel

\* The request answered although the ML analysis rejected after the threat
\* intel had resolved, with the semantic analysis skipped or disabled.
C23_Witness ==
    /\ pc = "responded"
    /\ fuseCalls = 1
    /\ tasks["ml"].analysis = "rejected" /\ tasks["ml"].order = 2
    /\ tasks["threatIntel"].analysis = "fulfilled" /\ tasks["threatIntel"].order = 1
    /\ tasks["llm"].analysis = "skipped"
    /\ reply[1].ml = None /\ reply[1].llm = None /\ IsSome(reply[1].threatIntel)

====
